---- MODULE Spec2Model ----
(***************************************************************************)
(* Budget-cycle engine of the expense tracker                              *)
(* (backend/app/services/analytics.py): payday resolution, theoretical and *)
(* secured cycle dates, transaction aggregation, burn rate status and the  *)
(* health report; and the settings row (backend/app/services/rules.py).    *)
(* Dates are proleptic Gregorian ordinals, as Python's date.toordinal().   *)
(* Money is counted in whole currency units; the budget limit is kept in   *)
(* hundredths so that the percentage division is exact.                    *)
(***************************************************************************)
EXTENDS Integers, Sequences, FiniteSets, TLC

VARIABLES today, pay_in, pay_out, cyc_in, cyc_out, agg_in, agg_out,
          settings, txns, report, burn_in, burn_out, table, calls,
          now, sessions, returned, rate_limit_state, sent,
          tasks, levels, task_status, level_no, goals, goal_seq,
          sync_state, jobs

\* The state of the services outside the budget core: the chat sessions, the
\* LLM rate limiter, the task executor, the goals table and the mail sync.
session_vars == <<sessions, returned>>
llm_vars == <<rate_limit_state, sent>>
dag_vars == <<tasks, levels, task_status, level_no>>
goal_vars == <<goals, goal_seq>>
sync_vars == <<sync_state, jobs>>
service_vars == <<now, session_vars, llm_vars, dag_vars, goal_vars, sync_vars>>

\* The state of the budget core.
report_vars ==
    <<today, pay_in, pay_out, cyc_in, cyc_out, agg_in, agg_out, settings,
      txns, report, burn_in, burn_out>>

vars == <<report_vars, table, calls, service_vars>>

(***************************************************************************)
(* Bounds of the model                                                     *)
(***************************************************************************)
FirstYear == 2024
NumYears == 2
MaxOffset == 2

Years == FirstYear .. (FirstYear + NumYears - 1)

(***************************************************************************)
(* datetime.date arithmetic                                                *)
(***************************************************************************)
IsLeap(y) == (y % 4 = 0) /\ ((y % 100 # 0) \/ (y % 400 = 0))

DaysInMonth(y, m) ==
    IF m = 2 THEN (IF IsLeap(y) THEN 29 ELSE 28)
    ELSE IF m \in {4, 6, 9, 11} THEN 30 ELSE 31

DaysBeforeYear(y) ==
    (y - 1) * 365 + ((y - 1) \div 4) - ((y - 1) \div 100) + ((y - 1) \div 400)

DaysBeforeMonth(y, m) ==
    <<0, 31, 59, 90, 120, 151, 181, 212, 243, 273, 304, 334>>[m]
      + (IF m > 2 /\ IsLeap(y) THEN 1 ELSE 0)

\* date(y, m, d).toordinal()
ToOrdinal(y, m, d) == DaysBeforeYear(y) + DaysBeforeMonth(y, m) + d

\* date.weekday(): Monday = 0 ... Sunday = 6
Weekday(n) == (n + 6) % 7

MkDate(y, m, d) == [year |-> y, month |-> m, day |-> d]

Ord(dt) == ToOrdinal(dt.year, dt.month, dt.day)

Dates ==
    {dt \in [year : Years, month : 1..12, day : 1..31] :
        dt.day <= DaysInMonth(dt.year, dt.month)}

(***************************************************************************)
(* Payday resolver                                                         *)
(***************************************************************************)
\* The function in use: weekends only, no holiday calendar.
get_adjusted_payday(year, month, salary_day) ==
    LET base_date ==
            IF salary_day <= DaysInMonth(year, month)
            THEN ToOrdinal(year, month, salary_day)
            ELSE IF month = 12 THEN ToOrdinal(year + 1, 1, 1) - 1
                 ELSE ToOrdinal(year, month + 1, 1) - 1
        weekday == Weekday(base_date)
    IN  IF weekday = 5 THEN base_date - 1
        ELSE IF weekday = 6 THEN base_date - 2
        ELSE base_date

\* Fixed-date public holidays of holidays.country_holidays('IN'):
\* Republic Day, Independence Day, Gandhi Jayanti, Christmas.
HolidayOrdinals(year) ==
    {ToOrdinal(year, 1, 26), ToOrdinal(year, 8, 15),
     ToOrdinal(year, 10, 2), ToOrdinal(year, 12, 25)}

IsHoliday(n, year) == n \in (HolidayOrdinals(year) \cup HolidayOrdinals(year - 1))

IsWeekend(n) == Weekday(n) >= 5

\* The target date of a payday: day_of_month clamped to the month's length.
ClampedTarget(year, month, day) ==
    ToOrdinal(year, month,
              IF day <= DaysInMonth(year, month) THEN day
              ELSE DaysInMonth(year, month))

(***************************************************************************)
(* Cycle date calculator                                                   *)
(***************************************************************************)
\* Mutant: the month after the target month is taken in the target year,
\* without carrying December into the next year.
get_theoretical_cycle_dates_nocarry(salary_day, offset, tdy) ==
    LET this_month_payday == get_adjusted_payday(tdy.year, tdy.month, salary_day)
        after == Ord(tdy) >= this_month_payday
        anchor_month == IF after THEN tdy.month
                        ELSE IF tdy.month = 1 THEN 12 ELSE tdy.month - 1
        anchor_year == IF after THEN tdy.year
                       ELSE IF tdy.month = 1 THEN tdy.year - 1 ELSE tdy.year
        total_months_linear == (anchor_year * 12) + (anchor_month - 1)
        target_total_months == total_months_linear - offset
        target_year == target_total_months \div 12
        target_month == (target_total_months % 12) + 1
        start_date == get_adjusted_payday(target_year, target_month, salary_day)
        next_m == (target_month % 12) + 1
        next_start == get_adjusted_payday(target_year, next_m, salary_day)
    IN  <<start_date, next_start - 1>>

\* Mutant: a today that is the payday itself is anchored on the previous
\* month (the anchor test is > instead of >=).
get_theoretical_cycle_dates_strict_anchor(salary_day, offset, tdy) ==
    LET this_month_payday == get_adjusted_payday(tdy.year, tdy.month, salary_day)
        after == Ord(tdy) > this_month_payday
        anchor_month == IF after THEN tdy.month
                        ELSE IF tdy.month = 1 THEN 12 ELSE tdy.month - 1
        anchor_year == IF after THEN tdy.year
                       ELSE IF tdy.month = 1 THEN tdy.year - 1 ELSE tdy.year
        total_months_linear == (anchor_year * 12) + (anchor_month - 1)
        target_total_months == total_months_linear - offset
        target_year == target_total_months \div 12
        target_month == (target_total_months % 12) + 1
        start_date == get_adjusted_payday(target_year, target_month, salary_day)
        next_total == target_total_months + 1
        next_y == next_total \div 12
        next_m == (next_total % 12) + 1
        next_start == get_adjusted_payday(next_y, next_m, salary_day)
    IN  <<start_date, next_start - 1>>

\* get_theoretical_cycle_dates(salary_day, offset) with date.today() = tdy;
\* returns <<start_date, end_date>>.
get_theoretical_cycle_dates(salary_day, offset, tdy) ==
    LET this_month_payday == get_adjusted_payday(tdy.year, tdy.month, salary_day)
        after == Ord(tdy) >= this_month_payday
        anchor_month == IF after THEN tdy.month
                        ELSE IF tdy.month = 1 THEN 12 ELSE tdy.month - 1
        anchor_year == IF after THEN tdy.year
                       ELSE IF tdy.month = 1 THEN tdy.year - 1 ELSE tdy.year
        total_months_linear == (anchor_year * 12) + (anchor_month - 1)
        target_total_months == total_months_linear - offset
        target_year == target_total_months \div 12
        target_month == (target_total_months % 12) + 1
        start_date == get_adjusted_payday(target_year, target_month, salary_day)
        next_total == target_total_months + 1
        next_y == next_total \div 12
        next_m == (next_total % 12) + 1
        next_start == get_adjusted_payday(next_y, next_m, salary_day)
    IN  <<start_date, next_start - 1>>

(***************************************************************************)
(* Values standing for "nothing yet"                                       *)
(***************************************************************************)
NoCall == [none |-> TRUE]
DefaultToday == MkDate(FirstYear, 3, 10)

\* Requests served at the same time, each one idle at first.
NumRequests == 2
Requests == 1..NumRequests
Idle == [pc |-> "idle"]
NoCalls == [r \in Requests |-> Idle]

\* The services outside the budget core, not in use.
SessionsIdle == sessions = NoCall /\ returned = NoCall
LlmIdle == rate_limit_state = NoCall /\ sent = NoCall
DagIdle == tasks = NoCall /\ levels = <<>> /\ task_status = NoCall /\ level_no = 0
GoalsIdle == goals = {} /\ goal_seq = 0
SyncIdle == sync_state = NoCall /\ jobs = {}
ServicesIdle == now = 0 /\ SessionsIdle /\ LlmIdle /\ DagIdle /\ GoalsIdle /\ SyncIdle


(***************************************************************************)
(* Specification of the payday resolver: every (year, month, day) input    *)
(***************************************************************************)
InitPayday ==
    /\ ServicesIdle
    /\ pay_in \in [year : Years, month : 1..12, day : 1..31]
    /\ pay_out = NoCall
    /\ today = DefaultToday
    /\ cyc_in = NoCall /\ cyc_out = NoCall
    /\ agg_in = NoCall /\ agg_out = NoCall
    /\ settings = NoCall /\ txns = {} /\ report = NoCall
    /\ burn_in = NoCall /\ burn_out = NoCall
    /\ table = {} /\ calls = NoCalls

ResolvePayday ==
    /\ pay_in # NoCall
    /\ pay_out = NoCall
    /\ pay_out' = [date |-> get_adjusted_payday(pay_in.year, pay_in.month,
                                                 pay_in.day)]
    /\ UNCHANGED <<today, pay_in, cyc_in, cyc_out, agg_in, agg_out,
                   settings, txns, report,
                   burn_in, burn_out, table, calls, service_vars>>

NextPayday == ResolvePayday

SpecPayday == InitPayday /\ [][NextPayday]_vars

\* C6: the resolved payday is the latest date on or before the clamped target
\* date that is neither a Saturday or Sunday nor a public holiday.
PaydayIsLatestWorkingDay ==
    pay_out # NoCall =>
        LET target == ClampedTarget(pay_in.year, pay_in.month, pay_in.day)
            working(n) == ~IsWeekend(n) /\ ~IsHoliday(n, pay_in.year)
        IN  /\ pay_out.date <= target
            /\ working(pay_out.date)
            /\ \A n \in (pay_out.date + 1) .. target : ~working(n)

(***************************************************************************)
(* Specification of the cycle date calculator: every today, salary day     *)
(***************************************************************************)
InitCycle ==
    /\ ServicesIdle
    /\ today \in Dates
    /\ cyc_in = NoCall /\ cyc_out = NoCall
    /\ pay_in = NoCall /\ pay_out = NoCall
    /\ agg_in = NoCall /\ agg_out = NoCall
    /\ settings = NoCall /\ txns = {} /\ report = NoCall
    /\ burn_in = NoCall /\ burn_out = NoCall
    /\ table = {} /\ calls = NoCalls

TheoreticalCycle ==
    /\ cyc_in = NoCall
    /\ \E sd \in 1..31, off \in 0..MaxOffset :
          LET c == get_theoretical_cycle_dates(sd, off, today)
          IN  /\ cyc_in' = [salary_day |-> sd, offset |-> off]
              /\ cyc_out' = [start |-> c[1], end |-> c[2]]
    /\ UNCHANGED <<today, pay_in, pay_out, agg_in, agg_out,
                   settings, txns, report,
                   burn_in, burn_out, table, calls, service_vars>>

NextCycle == TheoreticalCycle

SpecCycle == InitCycle /\ [][NextCycle]_vars

\* C1: for offset 0 the theoretical cycle contains today.
CycleContainsToday ==
    (cyc_out # NoCall /\ cyc_in.offset = 0) =>
        (cyc_out.start <= Ord(today) /\ Ord(today) <= cyc_out.end)

\* C2: the cycle one offset further back ends exactly one day before this
\* cycle starts, and both ranges have start <= end.
CyclesContiguous ==
    cyc_out # NoCall =>
        LET prev == get_theoretical_cycle_dates(cyc_in.salary_day,
                                                cyc_in.offset + 1, today)
        IN  /\ prev[2] = cyc_out.start - 1
            /\ cyc_out.start <= cyc_out.end
            /\ prev[1] <= prev[2]

\* Witness of C2: a cycle further back whose predecessor starts in the year
\* before the cycle's own start.
CyclesContiguousWitness ==
    /\ cyc_out # NoCall
    /\ cyc_in.offset >= 1
    /\ cyc_out.start >= ToOrdinal(FirstYear, 1, 1)
    /\ get_theoretical_cycle_dates(cyc_in.salary_day, cyc_in.offset + 1,
                                   today)[1] < ToOrdinal(FirstYear, 1, 1)

\* Calendar months stepped one at a time.
PrevMonth(ym) ==
    IF ym.month = 1 THEN [year |-> ym.year - 1, month |-> 12]
    ELSE [year |-> ym.year, month |-> ym.month - 1]

NextMonth(ym) ==
    IF ym.month = 12 THEN [year |-> ym.year + 1, month |-> 1]
    ELSE [year |-> ym.year, month |-> ym.month + 1]

RECURSIVE MonthsBack(_, _)
MonthsBack(ym, n) == IF n = 0 THEN ym ELSE MonthsBack(PrevMonth(ym), n - 1)

\* The resolved payday of a calendar month: the date the payday resolver
\* returns for it.
PaydayOf(ym, salary_day) == get_adjusted_payday(ym.year, ym.month, salary_day)

\* The month A of the anchor cycle: the current month when today is on or
\* after its resolved payday, the month before otherwise.
AnchorMonth(salary_day, tdy) ==
    LET this == [year |-> tdy.year, month |-> tdy.month]
    IN  IF Ord(tdy) >= PaydayOf(this, salary_day) THEN this ELSE PrevMonth(this)

\* C22: get_theoretical_cycle_dates(salary_day, offset) returns start =
\* resolved payday of month (A - offset) and end = resolved payday of month
\* (A - offset + 1) minus one day, the months being counted across year
\* boundaries.
CycleBoundedByPaydays ==
    cyc_out # NoCall =>
        LET target == MonthsBack(AnchorMonth(cyc_in.salary_day, today),
                                 cyc_in.offset)
        IN  /\ cyc_out.start = PaydayOf(target, cyc_in.salary_day)
            /\ cyc_out.end = PaydayOf(NextMonth(target), cyc_in.salary_day) - 1

\* Witness of C22: salary_day 25 on 2024-03-10, before the March payday:
\* the cycle runs from payday(Feb 2024, 25) = 2024-02-23 (the 25th is a
\* Sunday) to payday(Mar 2024, 25) - 1 = 2024-03-24.
CycleBoundedByPaydaysWitness ==
    /\ cyc_out # NoCall
    /\ today = MkDate(2024, 3, 10)
    /\ cyc_in.salary_day = 25
    /\ cyc_in.offset = 0
    /\ cyc_out.start = ToOrdinal(2024, 2, 23)
    /\ cyc_out.end = ToOrdinal(2024, 3, 24)

\* Witness of C22 across a year boundary: a cycle two offsets back from
\* January that starts in November of the year before.
CycleBoundedByPaydaysYearWitness ==
    /\ cyc_out # NoCall
    /\ today = MkDate(FirstYear + 1, 1, 10)
    /\ cyc_in.salary_day = 5
    /\ cyc_in.offset = 2
    /\ cyc_out.start = ToOrdinal(FirstYear, 11, 5)


(***************************************************************************)
(* Aggregator                                                              *)
(***************************************************************************)
MaxLen == 2
MaxAmount == 2

None == "NULL"
Categories == {"Salary", "Food", "Transfer"}

\* str.upper() / func.lower() on the payment types that get stored: the ETL
\* parser writes "credit"/"debit", the staging form "DEBIT"/"CREDIT".
Upper(s) ==
    CASE s = "credit" -> "CREDIT"
      [] s = "debit" -> "DEBIT"
      [] OTHER -> s

Lower(s) ==
    CASE s = "CREDIT" -> "credit"
      [] s = "DEBIT" -> "debit"
      [] OTHER -> s

RECURSIVE SumFun(_, _)
SumFun(f, S) ==
    IF S = {} THEN 0
    ELSE LET x == CHOOSE y \in S : TRUE
         IN  f[x] + SumFun(f, S \ {x})

\* dict.get(k, 0)
Get(f, k) == IF k \in DOMAIN f THEN f[k] ELSE 0

\* d[k] = v
Put(f, k, v) == [x \in (DOMAIN f) \cup {k} |-> IF x = k THEN v ELSE f[x]]

EmptyMap == [x \in {} |-> 0]

EmptyAggregates ==
    [total_spend |-> 0, total_income |-> 0,
     category_map |-> EmptyMap, daily_trend |-> EmptyMap]

\* Mutant: a refund is taken off the total but not off the day's trend entry.
aggregate_txn_notrend(acc, txn, cycle_start, ignored_cats, income_cats) ==
    LET amount == txn.amount
        p_type == IF txn.payment_type = None THEN "UNKNOWN"
                  ELSE Upper(txn.payment_type)
        cat_name == txn.category_name
        day_idx == (txn.txn_date - cycle_start) + 1
    IN  IF cat_name \in ignored_cats THEN acc
        ELSE IF cat_name \in income_cats THEN
            IF p_type = "CREDIT"
            THEN [acc EXCEPT !.total_income = @ + amount]
            ELSE IF p_type = "DEBIT"
            THEN [acc EXCEPT !.total_income = @ - amount]
            ELSE acc
        ELSE IF p_type = "DEBIT" THEN
            [acc EXCEPT
               !.total_spend = @ + amount,
               !.category_map = Put(@, cat_name, Get(@, cat_name) + amount),
               !.daily_trend = Put(@, day_idx, Get(@, day_idx) + amount)]
        ELSE IF p_type = "CREDIT" THEN
            [acc EXCEPT
               !.total_spend = @ - amount,
               !.category_map = IF cat_name \in DOMAIN @
                                THEN Put(@, cat_name, @[cat_name] - amount)
                                ELSE @]
        ELSE acc

\* One iteration of the loop of _process_transaction_aggregates.
aggregate_txn(acc, txn, cycle_start, ignored_cats, income_cats) ==
    LET amount == txn.amount
        p_type == IF txn.payment_type = None THEN "UNKNOWN"
                  ELSE Upper(txn.payment_type)
        cat_name == txn.category_name
        day_idx == (txn.txn_date - cycle_start) + 1
    IN  IF cat_name \in ignored_cats THEN acc
        ELSE IF cat_name \in income_cats THEN
            IF p_type = "CREDIT"
            THEN [acc EXCEPT !.total_income = @ + amount]
            ELSE IF p_type = "DEBIT"
            THEN [acc EXCEPT !.total_income = @ - amount]
            ELSE acc
        ELSE IF p_type = "DEBIT" THEN
            [acc EXCEPT
               !.total_spend = @ + amount,
               !.category_map = Put(@, cat_name, Get(@, cat_name) + amount),
               !.daily_trend = Put(@, day_idx, Get(@, day_idx) + amount)]
        ELSE IF p_type = "CREDIT" THEN
            [acc EXCEPT
               !.total_spend = @ - amount,
               !.category_map = IF cat_name \in DOMAIN @
                                THEN Put(@, cat_name, @[cat_name] - amount)
                                ELSE @,
               !.daily_trend = Put(@, day_idx, Get(@, day_idx) - amount)]
        ELSE acc

RECURSIVE aggregate_from(_, _, _, _, _, _)
aggregate_from(acc, transactions, i, cycle_start, ignored_cats, income_cats) ==
    IF i > Len(transactions) THEN acc
    ELSE aggregate_from(
             aggregate_txn(acc, transactions[i], cycle_start,
                           ignored_cats, income_cats),
             transactions, i + 1, cycle_start, ignored_cats, income_cats)

\* _process_transaction_aggregates(transactions, cycle_start, ignored_cats,
\* income_cats): total_spend, total_income, category_map, daily_trend.
process_transaction_aggregates(transactions, cycle_start, ignored_cats, income_cats) ==
    aggregate_from(EmptyAggregates, transactions, 1, cycle_start,
                   ignored_cats, income_cats)

(***************************************************************************)
(* Specification of the aggregator: every short transaction list           *)
(***************************************************************************)
AggCycleStart == ToOrdinal(FirstYear, 2, 26)
AggPaymentTypes == {"DEBIT", "credit", None}

AggTxns ==
    [amount : 1..MaxAmount,
     txn_date : {AggCycleStart, AggCycleStart + 1},
     payment_type : AggPaymentTypes,
     category_name : Categories]

SeqsUpTo(S, n) == UNION {[1..k -> S] : k \in 0..n}

InitAgg ==
    /\ ServicesIdle
    /\ agg_in \in [transactions : SeqsUpTo(AggTxns, MaxLen),
                   cycle_start : {AggCycleStart},
                   ignored_cats : {{}, {"Transfer"}},
                   income_cats : {{"Salary"}}]
    /\ agg_out = NoCall
    /\ today = DefaultToday
    /\ pay_in = NoCall /\ pay_out = NoCall
    /\ cyc_in = NoCall /\ cyc_out = NoCall
    /\ settings = NoCall /\ txns = {} /\ report = NoCall
    /\ burn_in = NoCall /\ burn_out = NoCall
    /\ table = {} /\ calls = NoCalls

ProcessAggregates ==
    /\ agg_in # NoCall
    /\ agg_out = NoCall
    /\ agg_out' = process_transaction_aggregates(
                      agg_in.transactions, agg_in.cycle_start,
                      agg_in.ignored_cats, agg_in.income_cats)
    /\ UNCHANGED <<today, pay_in, pay_out, cyc_in, cyc_out, agg_in,
                   settings, txns, report,
                   burn_in, burn_out, table, calls, service_vars>>

NextAgg == ProcessAggregates

SpecAgg == InitAgg /\ [][NextAgg]_vars

IsDebit(t) == t.payment_type \in {"DEBIT", "debit"}
IsCredit(t) == t.payment_type \in {"CREDIT", "credit"}

\* Signed amount of a transaction: DEBIT counts up, CREDIT counts down.
Signed(t) == IF IsDebit(t) THEN t.amount
             ELSE IF IsCredit(t) THEN 0 - t.amount ELSE 0

\* Sum of the signed amounts of the list's entries at the indexes in I.
SignedSum(transactions, I) ==
    SumFun([i \in I |-> Signed(transactions[i])], I)

ExpenseIndexes(a) ==
    {i \in DOMAIN a.transactions :
        /\ a.transactions[i].category_name \notin a.ignored_cats
        /\ a.transactions[i].category_name \notin a.income_cats}

\* C7: the day-indexed trend deltas add up to total_spend, and total_spend is
\* the DEBIT sum minus the CREDIT sum over the transactions of non-ignored,
\* non-income categories, each counted once.
AggregationConservation ==
    agg_out # NoCall =>
        /\ SumFun(agg_out.daily_trend, DOMAIN agg_out.daily_trend)
             = agg_out.total_spend
        /\ agg_out.total_spend
             = SignedSum(agg_in.transactions, ExpenseIndexes(agg_in))

\* Witness of C7: a refund and a purchase on different days next to an income
\* transaction, so the trend map has a negative and a positive delta.
AggregationConservationWitness ==
    /\ agg_out # NoCall
    /\ Cardinality(DOMAIN agg_out.daily_trend) = 2
    /\ \E d \in DOMAIN agg_out.daily_trend : agg_out.daily_trend[d] < 0
    /\ agg_out.total_spend > 0

\* C8: every expense category's map value is its DEBIT sum minus its CREDIT
\* sum, in whatever order the list is processed, and the map's values add up
\* to total_spend.
CategoryMapNetsRefunds ==
    agg_out # NoCall =>
        /\ \A c \in Categories \ (agg_in.ignored_cats \cup agg_in.income_cats) :
              Get(agg_out.category_map, c)
                = SignedSum(agg_in.transactions,
                            {i \in DOMAIN agg_in.transactions :
                                agg_in.transactions[i].category_name = c})
        /\ SumFun(agg_out.category_map, DOMAIN agg_out.category_map)
             = agg_out.total_spend

(***************************************************************************)
(* Settings and the transaction store                                      *)
(***************************************************************************)
MaxTxns == 2

ScanDays == 10
MinCycleDays == 5
LookbackDays == 7
Hundred == 100

\* The row get_or_create_settings inserts when the table is empty; the
\* columns it does not set take the defaults of models.UserSettings.  The
\* comma-separated category columns are kept as the sets of names that
\* calculate_financial_health splits them into.
DefaultSettings ==
    [salary_day |-> 1, budget_type |-> "PERCENTAGE", budget_value |-> 40,
     ignored_categories |-> {}, income_categories |-> {"Salary", "Income"},
     view_cycle_offset |-> 0]

\* get_or_create_settings(db): the stored row, created when absent.
get_or_create_settings(row) == IF row = NoCall THEN DefaultSettings ELSE row

\* Payloads of PUT /dashboard/settings that UserSettingsUpdate accepts.
SettingsUpdates ==
    {[salary_day |-> 26, budget_type |-> bt, budget_value |-> 40,
      ignored_categories |-> {}, income_categories |-> {"Salary"},
      view_cycle_offset |-> 0] : bt \in {"FIXED", "PERCENTAGE"}}
    \cup
    {[salary_day |-> 26, budget_type |-> "PERCENTAGE", budget_value |-> 40,
      ignored_categories |-> {"Salary"}, income_categories |-> {"Salary"},
      view_cycle_offset |-> 0],
     [salary_day |-> 26, budget_type |-> "FIXED", budget_value |-> 40,
      ignored_categories |-> {"Food"}, income_categories |-> {},
      view_cycle_offset |-> 0]}

\* Categories and amounts of the stored transactions.
StoreCategories == {"Salary", "Food"}
StoreAmounts == {1, 2}

\* Dates of the stored transactions, around DefaultToday: inside the
\* current and the previous cycle, in their scan and lookback windows, on
\* the previous cycle's last day and eleven days before it (inside the scan
\* window of a cycle cut short by one day).  Expenses fall on two of them.
TxnDates ==
    {ToOrdinal(FirstYear, 2, 14), ToOrdinal(FirstYear, 2, 20),
     ToOrdinal(FirstYear, 2, 25), ToOrdinal(FirstYear, 3, 5),
     ToOrdinal(FirstYear, 3, 24)}

ExpenseDates == {ToOrdinal(FirstYear, 2, 25), ToOrdinal(FirstYear, 3, 5)}

\* Income credits fall on every date with either amount; expenses, refunds
\* and income reversals on the expense dates, expenses and refunds with the
\* amount 1.
StoreRows(types) ==
    {r \in [amount : StoreAmounts, txn_date : TxnDates,
            payment_type : types, category_name : StoreCategories] :
        /\ (r.category_name = "Food" \/ IsDebit(r))
              => r.txn_date \in ExpenseDates
        /\ r.category_name = "Food" => r.amount = 1}

\* Rows written by the mail ETL: determine_type yields "credit" or "debit".
EtlRows == StoreRows({"credit", "debit"})

\* Rows written from the staging form: payment_type as the client sent it,
\* "DEBIT" (the schema's default) or "CREDIT".
StagingRows == StoreRows({"DEBIT", "CREDIT"})

MinOf(S) == CHOOSE x \in S : \A y \in S : x <= y
MaxOf(S) == CHOOSE x \in S : \A y \in S : x >= y

(***************************************************************************)
(* Secure cycle resolver                                                   *)
(***************************************************************************)
\* The rows the guard's query selects as income credits: payment_type is
\* compared with 'credit' as stored.
guard_income_credit(t, income_list) ==
    /\ t.payment_type = "credit"
    /\ t.category_name \in income_list

\* The early-salary guard of get_secure_cycle_dates, applied to a range.
secure_guard(db, start_date, end_date, income_list) ==
    IF income_list = {} THEN <<start_date, end_date>>
    ELSE LET scan_start == end_date - ScanDays
             hits == {t \in db : /\ t.txn_date >= scan_start
                                 /\ t.txn_date <= end_date
                                 /\ guard_income_credit(t, income_list)}
         IN  IF hits = {} THEN <<start_date, end_date>>
             ELSE LET early_salary_date == MinOf({t.txn_date : t \in hits})
                  IN  IF early_salary_date > start_date + MinCycleDays
                      THEN <<start_date, early_salary_date - 1>>
                      ELSE <<start_date, end_date>>

\* get_secure_cycle_dates(db, salary_day, offset, income_list)
get_secure_cycle_dates(db, salary_day, offset, income_list, tdy) ==
    LET c == get_theoretical_cycle_dates(salary_day, offset, tdy)
    IN  secure_guard(db, c[1], c[2], income_list)

(***************************************************************************)
(* Data fetching helpers                                                   *)
(***************************************************************************)
InRange(db, start_date, end_date) ==
    {t \in db : t.txn_date >= start_date /\ t.txn_date <= end_date}

\* All orders of the rows of S.
Orders(S) ==
    {q \in [1..Cardinality(S) -> S] : \A t \in S : \E i \in DOMAIN q : q[i] = t}

\* _fetch_cycle_transactions: the rows of the range ordered by txn_date;
\* rows of the same date come in any order.
fetch_cycle_transactions(db, start_date, end_date) ==
    {q \in Orders(InRange(db, start_date, end_date)) :
        \A i, j \in DOMAIN q : i < j => q[i].txn_date <= q[j].txn_date}

\* _fetch_fallback_income: the amount of a latest income credit of the seven
\* days before start_date (any of them when several share that date), or 0.
fetch_fallback_income(db, start_date, income_categories) ==
    LET hits == {t \in db : /\ t.txn_date >= start_date - LookbackDays
                            /\ t.txn_date < start_date
                            /\ Lower(t.payment_type) = "credit"
                            /\ t.category_name \in income_categories}
    IN  IF hits = {} THEN {0}
        ELSE LET latest == MaxOf({t.txn_date : t \in hits})
             IN  {t.amount : t \in {h \in hits : h.txn_date = latest}}

(***************************************************************************)
(* Previous-cycle comparison and trend series                              *)
(***************************************************************************)
Max2(a, b) == IF a >= b THEN a ELSE b
Min2(a, b) == IF a <= b THEN a ELSE b

\* One iteration of the loop of _calculate_previous_spend_todate.
previous_txn(acc, txn, prev_start, days_passed_current, ignored_cats, income_cats) ==
    IF txn.category_name \in ignored_cats \/ txn.category_name \in income_cats
    THEN acc
    ELSE LET amount == txn.amount
             p_type == IF txn.payment_type = None THEN "UNKNOWN"
                       ELSE Upper(txn.payment_type)
             day_idx == (txn.txn_date - prev_start) + 1
             val == IF p_type = "DEBIT" THEN amount ELSE 0 - amount
         IN  [prev_trend |-> Put(acc.prev_trend, day_idx,
                                 Get(acc.prev_trend, day_idx) + val),
              spend_upto_now |->
                  IF day_idx <= days_passed_current
                  THEN acc.spend_upto_now + val ELSE acc.spend_upto_now]

RECURSIVE previous_from(_, _, _, _, _, _, _)
previous_from(acc, prev_transactions, i, prev_start, days_passed_current, ignored_cats, income_cats) ==
    IF i > Len(prev_transactions) THEN acc
    ELSE previous_from(
             previous_txn(acc, prev_transactions[i], prev_start,
                          days_passed_current, ignored_cats, income_cats),
             prev_transactions, i + 1, prev_start, days_passed_current,
             ignored_cats, income_cats)

\* _calculate_previous_spend_todate: spend_upto_now and prev_trend.
calculate_previous_spend_todate(prev_transactions, prev_start, days_passed_current, ignored_cats, income_cats) ==
    previous_from([prev_trend |-> EmptyMap, spend_upto_now |-> 0],
                  prev_transactions, 1, prev_start, days_passed_current,
                  ignored_cats, income_cats)

\* An optional number: Null is Python's None.
Null == <<>>
Some(v) == <<v>>

\* Running sum of the deltas of days 1..i.
CumTo(f, i) == SumFun(f, {k \in DOMAIN f : 1 <= k /\ k <= i})

\* A quotient n / d of two integers, kept as the fraction it is; a
\* denominator of 0 stands for Python's ZeroDivisionError.
Div(n, d) == [num |-> n, den |-> d]

\* Mutant: the actual value is the day's own delta, not the running sum.
build_trend_graph_deltas(days_in_cycle, days_passed, prev_duration, curr_trend_data, prev_trend_data, budget_limit, offset) ==
    LET max_days == IF days_in_cycle > 0 \/ prev_duration > 0
                    THEN Max2(days_in_cycle, prev_duration) ELSE 1
        ideal_daily == IF days_in_cycle > 0
                       THEN Div(budget_limit, days_in_cycle) ELSE Div(0, 1)
    IN  [i \in 1..max_days |->
            LET show_actual == (i <= days_in_cycle)
                                 /\ ~(offset = 0 /\ i > days_passed)
            IN  [day |-> i,
                 actual |-> IF show_actual THEN Some(Get(curr_trend_data, i))
                            ELSE Null,
                 previous |-> IF i <= prev_duration
                              THEN Some(CumTo(prev_trend_data, i)) ELSE Null,
                 ideal |-> IF i <= days_in_cycle
                           THEN Some(Div(ideal_daily.num * i, ideal_daily.den))
                           ELSE Null]]

\* _build_trend_graph: the points' day, actual, previous and ideal values
\* (the ideal value before it is rounded to two places).  cum_actual and
\* cum_prev at day i are the sums of the deltas of days 1..i.
build_trend_graph(days_in_cycle, days_passed, prev_duration, curr_trend_data, prev_trend_data, budget_limit, offset) ==
    LET max_days == IF days_in_cycle > 0 \/ prev_duration > 0
                    THEN Max2(days_in_cycle, prev_duration) ELSE 1
        ideal_daily == IF days_in_cycle > 0
                       THEN Div(budget_limit, days_in_cycle) ELSE Div(0, 1)
    IN  [i \in 1..max_days |->
            LET show_actual == (i <= days_in_cycle)
                                 /\ ~(offset = 0 /\ i > days_passed)
            IN  [day |-> i,
                 actual |-> IF show_actual THEN Some(CumTo(curr_trend_data, i))
                            ELSE Null,
                 previous |-> IF i <= prev_duration
                              THEN Some(CumTo(prev_trend_data, i)) ELSE Null,
                 ideal |-> IF i <= days_in_cycle
                           THEN Some(Div(ideal_daily.num * i, ideal_daily.den))
                           ELSE Null]]

(***************************************************************************)
(* Burn rate status                                                        *)
(***************************************************************************)
HighBurnPoints == 15
CautionPoints == 5

\* budget_used_pct > time_passed_pct + points, for budget_limit > 0 and
\* days_in_cycle > 0, with both sides multiplied by
\* budget_limit * days_in_cycle:
\* (total_spend / budget_limit) * 100 > (days_passed / days_in_cycle) * 100
\*                                        + points.
used_exceeds_time(total_spend, budget_limit, days_passed, days_in_cycle, points) ==
    total_spend * Hundred * days_in_cycle
      > (days_passed * Hundred + points * days_in_cycle) * budget_limit

\* _calculate_burn_rate_status
calculate_burn_rate_status(total_spend, budget_limit, days_passed, days_in_cycle) ==
    IF budget_limit <= 0 THEN "On Track"
    ELSE IF budget_limit - total_spend < 0 THEN "Over Budget"
    ELSE IF days_in_cycle <= 0 \/ days_passed <= 0 THEN "On Track"
    ELSE IF used_exceeds_time(total_spend, budget_limit, days_passed,
                              days_in_cycle, HighBurnPoints)
         THEN "High Burn"
    ELSE IF used_exceeds_time(total_spend, budget_limit, days_passed,
                              days_in_cycle, CautionPoints)
         THEN "Caution"
    ELSE "On Track"

(***************************************************************************)
(* Specification of the burn rate status: every spend, limit and day       *)
(***************************************************************************)
MaxBurnAmount == 10
BurnCycleDays == 30

\* Spend can be negative (refunds outweigh expenses); a limit below 0 is
\* treated by the code as a limit of 0.
BurnSpends == (0 - 1) .. MaxBurnAmount
BurnLimits == 0 .. MaxBurnAmount

BurnInputs ==
    [total_spend : BurnSpends, budget_limit : BurnLimits,
     days_passed : 1..BurnCycleDays, days_in_cycle : {BurnCycleDays}]

InitBurn ==
    /\ ServicesIdle
    /\ burn_in \in BurnInputs
    /\ burn_out = NoCall
    /\ today = DefaultToday
    /\ pay_in = NoCall /\ pay_out = NoCall
    /\ cyc_in = NoCall /\ cyc_out = NoCall
    /\ agg_in = NoCall /\ agg_out = NoCall
    /\ settings = NoCall /\ txns = {} /\ report = NoCall
    /\ table = {} /\ calls = NoCalls

BurnRateStatus ==
    /\ burn_in # NoCall
    /\ burn_out = NoCall
    /\ burn_out' = [status |->
                       calculate_burn_rate_status(burn_in.total_spend,
                                                  burn_in.budget_limit,
                                                  burn_in.days_passed,
                                                  burn_in.days_in_cycle)]
    /\ UNCHANGED <<today, pay_in, pay_out, cyc_in, cyc_out, agg_in, agg_out,
                   settings, txns, report, burn_in, table, calls, service_vars>>

NextBurn == BurnRateStatus

SpecBurn == InitBurn /\ [][NextBurn]_vars

\* "Budget-used percent exceeds time-elapsed percent by more than points":
\* total_spend / budget_limit * 100 > days_passed / days_in_cycle * 100
\* + points, as a comparison of rationals; never so when budget_limit is 0
\* (nothing of the budget can be used).
UsedExceedsTimeBy(i, points) ==
    /\ i.budget_limit > 0
    /\ i.total_spend * Hundred * i.days_in_cycle
         > (i.days_passed * Hundred + points * i.days_in_cycle)
             * i.budget_limit

\* C13: the status is Over Budget whenever total_spend exceeds budget_limit;
\* otherwise High Burn when budget-used percent exceeds time-elapsed percent
\* by more than 15 points, Caution when by more than 5 points, and On Track
\* in every remaining case.
BurnStatusByThresholds ==
    burn_out # NoCall =>
        burn_out.status =
            IF burn_in.total_spend > burn_in.budget_limit THEN "Over Budget"
            ELSE IF UsedExceedsTimeBy(burn_in, HighBurnPoints) THEN "High Burn"
            ELSE IF UsedExceedsTimeBy(burn_in, CautionPoints) THEN "Caution"
            ELSE "On Track"

\* On Track < Caution < High Burn < Over Budget
StatusRank(status) ==
    CASE status = "On Track" -> 0
      [] status = "Caution" -> 1
      [] status = "High Burn" -> 2
      [] status = "Over Budget" -> 3

StatusOf(i) ==
    calculate_burn_rate_status(i.total_spend, i.budget_limit, i.days_passed,
                               i.days_in_cycle)

\* C14: with the days fixed, a higher total_spend or a lower budget_limit
\* never gives a safer status; with spend and limit fixed, fewer days passed
\* never give a safer status.
BurnStatusMonotone ==
    burn_out # NoCall =>
        \A j \in BurnInputs :
            (\/ /\ j.days_passed = burn_in.days_passed
                /\ j.days_in_cycle = burn_in.days_in_cycle
                /\ j.total_spend >= burn_in.total_spend
                /\ j.budget_limit <= burn_in.budget_limit
             \/ /\ j.total_spend = burn_in.total_spend
                /\ j.budget_limit = burn_in.budget_limit
                /\ j.days_in_cycle = burn_in.days_in_cycle
                /\ j.days_passed <= burn_in.days_passed)
            => StatusRank(StatusOf(j)) >= StatusRank(burn_out.status)

(***************************************************************************)
(* Health report                                                           *)
(***************************************************************************)
\* Mutant: the percentage is applied under every budget type.
budget_limit_of_always_pct(s, calc_income) == calc_income * s.budget_value

\* budget_limit in hundredths of a currency unit:
\* float(budget_value), or (calc_income * budget_value) / 100.
budget_limit_of(s, calc_income) ==
    IF s.budget_type = "PERCENTAGE" THEN calc_income * s.budget_value
    ELSE s.budget_value * Hundred

\* Mutant: the lookup also runs when the cycle's income is negative.
needs_fallback_nonpositive(s, total_income) ==
    s.budget_type = "PERCENTAGE" /\ total_income <= 0

\* The condition under which _fetch_fallback_income is called.
needs_fallback(s, total_income) ==
    s.budget_type = "PERCENTAGE" /\ total_income = 0

\* The income the percentage is taken of: total_income, or the fallback
\* lookup's result when total_income is 0 under a PERCENTAGE budget.
calc_income_of(s, total_income, fallback) ==
    IF needs_fallback(s, total_income) THEN fallback ELSE total_income

\* Mutant: the allowance is computed whenever days are left.
safe_daily_of_any_remaining(budget_remaining, days_left) ==
    IF days_left > 0 THEN Div(budget_remaining, days_left) ELSE Div(0, 1)

\* safe_daily: budget_remaining / days_left, or 0.0.
safe_daily_of(budget_remaining, days_left) ==
    IF days_left > 0 /\ budget_remaining > 0
    THEN Div(budget_remaining, days_left) ELSE Div(0, 1)

\* Mutant: the daily average is not scaled to the cycle's length.
projected_spend_of_average(total_spend, days_passed, days_in_cycle) ==
    IF days_passed > 0 /\ days_in_cycle > 0
    THEN Div(total_spend, days_passed) ELSE Div(0, 1)

\* projected_spend: (total_spend / days_passed) * days_in_cycle, or 0.
projected_spend_of(total_spend, days_passed, days_in_cycle) ==
    IF days_passed > 0 /\ days_in_cycle > 0
    THEN Div(total_spend * days_in_cycle, days_passed) ELSE Div(0, 1)

\* diff_percent: the change against the previous cycle's spend to date.
diff_percent_of(total_spend, prev_spend_upto_now) ==
    IF prev_spend_upto_now > 0
    THEN Div((total_spend - prev_spend_upto_now) * Hundred,
             prev_spend_upto_now)
    ELSE Div(IF total_spend > 0 THEN Hundred ELSE 0, 1)

\* Mutant: today's position in the cycle is not capped at its length.
days_passed_of_uncapped(offset, tdy, start, days_in_cycle) ==
    IF offset > 0 THEN days_in_cycle
    ELSE Max2(0, (Ord(tdy) - start) + 1)

\* days_passed: the whole cycle for a past cycle, else today's day index
\* kept within 0..days_in_cycle.
days_passed_of(offset, tdy, start, days_in_cycle) ==
    IF offset > 0 THEN days_in_cycle
    ELSE Max2(0, Min2((Ord(tdy) - start) + 1, days_in_cycle))

\* The report of calculate_financial_health(db, offset) for one outcome of
\* its queries: curr_txns and prev_txns as fetched, fallback as looked up.
\* Money fields are in hundredths; the locals total_income and calc_income
\* and whether the fallback lookup ran are kept for reference, and so are
\* the arguments _build_trend_graph gets: curr_trend, prev_trend and
\* prev_duration.  Quotients are kept as fractions, before rounding.
health_report(s, offset, tdy, start, end, p_start, p_end, curr_txns, prev_txns, fallback) ==
    LET ignored == s.ignored_categories
        income_cats == s.income_categories
        agg == process_transaction_aggregates(curr_txns, start, ignored,
                                              income_cats)
        days_in_cycle == (end - start) + 1
        days_passed == days_passed_of(offset, tdy, start, days_in_cycle)
        prev == calculate_previous_spend_todate(prev_txns, p_start,
                                                days_passed, ignored,
                                                income_cats)
        calc_income == calc_income_of(s, agg.total_income, fallback)
        budget_limit == budget_limit_of(s, calc_income)
        budget_remaining == budget_limit - (agg.total_spend * Hundred)
        days_left == Max2(0, days_in_cycle - days_passed)
    IN  [offset |-> offset,
         cycle_start |-> start,
         cycle_end |-> end,
         days_in_cycle |-> days_in_cycle,
         days_passed |-> days_passed,
         days_left |-> days_left,
         total_budget |-> budget_limit,
         total_spend |-> agg.total_spend * Hundred,
         total_income |-> agg.total_income,
         fallback_called |-> needs_fallback(s, agg.total_income),
         calc_income |-> calc_income,
         budget_remaining |-> budget_remaining,
         safe_to_spend_daily |-> safe_daily_of(budget_remaining, days_left),
         burn_rate_status |->
             calculate_burn_rate_status(agg.total_spend * Hundred,
                                        budget_limit, days_passed,
                                        days_in_cycle),
         projected_spend |->
             projected_spend_of(agg.total_spend * Hundred, days_passed,
                                days_in_cycle),
         prev_cycle_spend_todate |-> prev.spend_upto_now * Hundred,
         spend_diff_percent |->
             diff_percent_of(agg.total_spend, prev.spend_upto_now),
         category_breakdown |->
             {[name |-> k, value |-> agg.category_map[k]] :
                 k \in {c \in DOMAIN agg.category_map :
                           agg.category_map[c] > 0}},
         spending_trend |->
             build_trend_graph(days_in_cycle, days_passed,
                               (p_end - p_start) + 1, agg.daily_trend,
                               prev.prev_trend, budget_limit, offset),
         curr_trend |-> agg.daily_trend,
         prev_trend |-> prev.prev_trend,
         prev_duration |-> (p_end - p_start) + 1]

\* calculate_financial_health(db, offset): every report the call can return.
calculate_financial_health(db, row, offset, tdy) ==
    LET s == get_or_create_settings(row)
        c == get_secure_cycle_dates(db, s.salary_day, offset,
                                    s.income_categories, tdy)
        p == get_secure_cycle_dates(db, s.salary_day, offset + 1,
                                    s.income_categories, tdy)
    IN  {health_report(s, offset, tdy, c[1], c[2], p[1], p[2], curr, prev, fb) :
            curr \in fetch_cycle_transactions(db, c[1], c[2]),
            prev \in fetch_cycle_transactions(db, p[1], p[2]),
            fb \in fetch_fallback_income(db, c[1], s.income_categories)}

(***************************************************************************)
(* Specification of the dashboard: settings, store and report requests     *)
(***************************************************************************)
MaxViewOffset == 1

InitHealth ==
    /\ ServicesIdle
    /\ today = DefaultToday
    /\ settings = NoCall
    /\ txns = {}
    /\ report = NoCall
    /\ burn_in = NoCall /\ burn_out = NoCall
    /\ table = {} /\ calls = NoCalls
    /\ pay_in = NoCall /\ pay_out = NoCall
    /\ cyc_in = NoCall /\ cyc_out = NoCall
    /\ agg_in = NoCall /\ agg_out = NoCall

\* PUT /dashboard/settings
update_settings ==
    /\ report = NoCall
    /\ \E data \in SettingsUpdates : settings' = data
    /\ UNCHANGED <<today, txns, report, pay_in, pay_out, cyc_in, cyc_out,
                   agg_in, agg_out,
                   burn_in, burn_out, table, calls, service_vars>>

\* The mail ETL stores a parsed transaction.
save_transaction ==
    /\ report = NoCall
    /\ Cardinality(txns) < MaxTxns
    /\ \E row \in EtlRows \ txns : txns' = txns \cup {row}
    /\ UNCHANGED <<today, settings, report, pay_in, pay_out, cyc_in, cyc_out,
                   agg_in, agg_out,
                   burn_in, burn_out, table, calls, service_vars>>

\* A staged mail is converted by hand into a transaction.
convert_staging_to_transaction ==
    /\ report = NoCall
    /\ Cardinality(txns) < MaxTxns
    /\ \E row \in StagingRows \ txns : txns' = txns \cup {row}
    /\ UNCHANGED <<today, settings, report, pay_in, pay_out, cyc_in, cyc_out,
                   agg_in, agg_out,
                   burn_in, burn_out, table, calls, service_vars>>

\* A duplicate is resolved by deleting one transaction.
resolve_duplicate_pair ==
    /\ report = NoCall
    /\ \E row \in txns : txns' = txns \ {row}
    /\ UNCHANGED <<today, settings, report, pay_in, pay_out, cyc_in, cyc_out,
                   agg_in, agg_out,
                   burn_in, burn_out, table, calls, service_vars>>

\* A variant of session_pending whose session also holds a new transaction
\* object when it commits.
session_pending_with_transaction(row) ==
    IF row = NoCall
    THEN {[tablename |-> "user_settings", columns |-> DefaultSettings],
          [tablename |-> "transactions",
           columns |-> CHOOSE r \in EtlRows : TRUE]}
    ELSE {}

\* The objects the request's session holds as new or dirty when
\* calculate_financial_health has run: get_or_create_settings adds the
\* default settings row when the table is empty; every other statement of the
\* request is a select of columns, so no transaction object is ever pending.
session_pending(row) ==
    IF row = NoCall
    THEN {[tablename |-> "user_settings", columns |-> DefaultSettings]}
    ELSE {}

\* The transactions table after the session's commit has flushed its pending
\* objects.
commit_transactions(db, pending) ==
    db \cup {o.columns : o \in {p \in pending : p.tablename = "transactions"}}

\* GET /dashboard/?offset=n
get_dashboard_stats ==
    /\ report = NoCall
    /\ settings' = get_or_create_settings(settings)
    /\ txns' = commit_transactions(txns, session_pending(settings))
    /\ \E offset \in 0..MaxViewOffset :
          report' \in calculate_financial_health(txns, settings, offset, today)
    /\ UNCHANGED <<today, pay_in, pay_out, cyc_in, cyc_out,
                   agg_in, agg_out,
                   burn_in, burn_out, table, calls, service_vars>>

\* The response has been sent; the next request is served.
ReturnReport ==
    /\ report # NoCall
    /\ report' = NoCall
    /\ UNCHANGED <<today, settings, txns, pay_in, pay_out, cyc_in, cyc_out,
                   agg_in, agg_out,
                   burn_in, burn_out, table, calls, service_vars>>

NextHealth ==
    \/ update_settings
    \/ save_transaction
    \/ convert_staging_to_transaction
    \/ resolve_duplicate_pair
    \/ get_dashboard_stats
    \/ ReturnReport

SpecHealth == InitHealth /\ [][NextHealth]_vars

\* C21: for every offset and every state of the settings and transaction
\* stores, a call to calculate_financial_health leaves the set of stored
\* transactions and all of their fields unchanged.
ReportLeavesTransactions ==
    [][(report = NoCall /\ report' # NoCall) => txns' = txns]_vars

\* A report for a previous cycle has been computed over a store that holds
\* transactions, by a request that also had to create the settings row.
ReportLeavesTransactionsWitness ==
    /\ report # NoCall
    /\ report.offset = 1
    /\ txns # {}
    /\ settings = DefaultSettings

(***************************************************************************)
(* Properties of the secure cycle and of the report                        *)
(***************************************************************************)
\* The theoretical cycle the pending report was computed from.
ReportTheoretical ==
    get_theoretical_cycle_dates(settings.salary_day, report.offset, today)

\* Income CREDIT rows, in whatever letter case the type is stored.
IncomeCredits(db, income) ==
    {t \in db : IsCredit(t) /\ t.category_name \in income}

\* C3: the secured cycle keeps the theoretical start; it keeps the theoretical
\* end when the income list is empty or no income CREDIT is dated in
\* [end - 10, end]; otherwise, with d the earliest such date, the end is d - 1
\* if d > start + 5 and the theoretical end if not.
SecureCycleSnapsToEarlySalary ==
    report # NoCall =>
        LET th == ReportTheoretical
            hits == {t \in IncomeCredits(txns, settings.income_categories) :
                        t.txn_date >= th[2] - ScanDays /\ t.txn_date <= th[2]}
            d == MinOf({t.txn_date : t \in hits})
        IN  /\ report.cycle_start = th[1]
            /\ report.cycle_end =
                 IF settings.income_categories = {} \/ hits = {} THEN th[2]
                 ELSE IF d > th[1] + MinCycleDays THEN d - 1 ELSE th[2]

\* C4: with an income CREDIT dated on the theoretical cycle's last day, the
\* secured end is strictly before that date, and the guard applied to the
\* secured range returns the secured range.
EarlySalaryIdempotence ==
    (/\ report # NoCall
     /\ \E t \in IncomeCredits(txns, settings.income_categories) :
           t.txn_date = ReportTheoretical[2])
    =>  /\ report.cycle_end < ReportTheoretical[2]
        /\ secure_guard(txns, report.cycle_start, report.cycle_end,
                        settings.income_categories)
             = <<report.cycle_start, report.cycle_end>>

\* The rows that make up the income base of the secured cycle at an offset:
\* the cycle's counted income credits or, when total_income is 0 under a
\* PERCENTAGE budget, the rows the seven-day lookup can return.
IncomeBaseRows(db, s, offset, tdy) ==
    LET c == get_secure_cycle_dates(db, s.salary_day, offset,
                                    s.income_categories, tdy)
        counted == {t \in InRange(db, c[1], c[2]) :
                       /\ t.category_name \in s.income_categories
                       /\ t.category_name \notin s.ignored_categories}
        total_income == SumFun([t \in counted |-> 0 - Signed(t)], counted)
        looked == {t \in IncomeCredits(db, s.income_categories) :
                      /\ t.txn_date >= c[1] - LookbackDays
                      /\ t.txn_date < c[1]}
    IN  IF s.budget_type = "PERCENTAGE" /\ total_income = 0
        THEN {t \in looked : \A u \in looked : u.txn_date <= t.txn_date}
        ELSE {t \in counted : IsCredit(t)}

\* C5: no income CREDIT row is in the income base of both the secured cycle
\* of the report and the secured cycle one offset further back.
NoSalaryInTwoCycles ==
    report # NoCall =>
        IncomeBaseRows(txns, settings, report.offset, today)
          \cap IncomeBaseRows(txns, settings, report.offset + 1, today) = {}

\* The rows the aggregator counts as income of the secured cycle at an offset.
CountedIncome(db, s, offset, tdy) ==
    LET c == get_secure_cycle_dates(db, s.salary_day, offset, s.income_categories, tdy)
    IN  {t \in InRange(db, c[1], c[2]) :
            /\ t.category_name \in s.income_categories
            /\ t.category_name \notin s.ignored_categories
            /\ IsCredit(t)}

\* The early salary rows of a report whose end the guard moved: the income
\* credits the guard finds on the day after the secured end.
EarlySalaryRows ==
    {t \in txns : /\ t.txn_date = report.cycle_end + 1
                  /\ t.payment_type = "credit"
                  /\ t.category_name \in settings.income_categories}

\* C24: whenever get_secure_cycle_dates moves a cycle's end to the day before
\* an early salary, that salary row lies inside the secured range of the
\* following cycle (offset - 1) and is counted as that cycle's income.
EarlySalaryInFollowingCycle ==
    (/\ report # NoCall
     /\ report.offset >= 1
     /\ report.cycle_end < ReportTheoretical[2])
    =>  \A t \in EarlySalaryRows :
            t \in CountedIncome(txns, settings, report.offset - 1, today)

\* C9: a step that adds or removes only rows of ignored categories changes no
\* report, at any offset, also when the category is an income category too.
IgnoredRowsChangeNoReport ==
    [][(/\ settings # NoCall
        /\ settings' = settings
        /\ txns' # txns
        /\ \A t \in (txns \ txns') \cup (txns' \ txns) :
              t.category_name \in settings.ignored_categories)
       => \A offset \in 0..MaxViewOffset :
             calculate_financial_health(txns', settings, offset, today)
               = calculate_financial_health(txns, settings, offset, today)]_vars

\* C10: the reported budget limit is budget_value under FIXED and
\* income_base * budget_value / 100 under PERCENTAGE, where income_base is the
\* cycle's income CREDIT total minus its income DEBIT total or, when that is
\* 0, the amount of a latest income CREDIT of the seven days before the start,
\* and 0 if there is none.  (total_budget is in hundredths.)
BudgetLimitFollowsType ==
    report # NoCall =>
        LET counted == {t \in InRange(txns, report.cycle_start, report.cycle_end) :
                           /\ t.category_name \in settings.income_categories
                           /\ t.category_name \notin settings.ignored_categories}
            in_cycle == SumFun([t \in counted |-> 0 - Signed(t)], counted)
            looked == {t \in IncomeCredits(txns, settings.income_categories) :
                          /\ t.txn_date >= report.cycle_start - LookbackDays
                          /\ t.txn_date <= report.cycle_start - 1}
            latest == {t \in looked : \A u \in looked : u.txn_date <= t.txn_date}
            bases == IF in_cycle # 0 THEN {in_cycle}
                     ELSE IF looked = {} THEN {0}
                     ELSE {t.amount : t \in latest}
        IN  /\ settings.budget_type = "FIXED" =>
                 report.total_budget = settings.budget_value * Hundred
            /\ settings.budget_type = "PERCENTAGE" =>
                 \E b \in bases :
                    report.total_budget = b * settings.budget_value

\* Witness of C10: a PERCENTAGE report whose cycle has no net income and whose
\* budget comes from the lookback.
BudgetLimitFollowsTypeWitness ==
    /\ report # NoCall
    /\ settings.budget_type = "PERCENTAGE"
    /\ report.total_income = 0
    /\ report.total_budget > 0
    /\ \E t \in txns : t.category_name = "Salary" /\ IsDebit(t)
                       /\ t.txn_date >= report.cycle_start
                       /\ t.txn_date <= report.cycle_end

\* C11: the seven-day lookup runs exactly when the budget type is PERCENTAGE
\* and the cycle's total_income is 0; the income base is then the amount of a
\* most recent income CREDIT dated in [start - 7, start - 1], or 0 when there
\* is none; in every other case the income base is total_income.
FallbackExactlyOnZeroIncome ==
    report # NoCall =>
        LET looked == {t \in IncomeCredits(txns, settings.income_categories) :
                          /\ t.txn_date >= report.cycle_start - LookbackDays
                          /\ t.txn_date <= report.cycle_start - 1}
            latest == {t \in looked : \A u \in looked : u.txn_date <= t.txn_date}
        IN  /\ report.fallback_called
                 <=> (settings.budget_type = "PERCENTAGE"
                        /\ report.total_income = 0)
            /\ report.fallback_called =>
                 IF looked = {} THEN report.calc_income = 0
                 ELSE \E t \in latest : report.calc_income = t.amount
            /\ ~report.fallback_called =>
                 report.calc_income = report.total_income

\* Witness of C11: a PERCENTAGE report of a cycle without income whose base
\* is the later of two income credits found in the seven days before it.
FallbackExactlyOnZeroIncomeWitness ==
    /\ report # NoCall
    /\ report.fallback_called
    /\ report.calc_income = 2
    /\ \E t, u \in IncomeCredits(txns, settings.income_categories) :
          /\ t.txn_date < u.txn_date
          /\ u.txn_date < report.cycle_start
          /\ t.txn_date >= report.cycle_start - LookbackDays
          /\ t.amount = 1 /\ u.amount = 2

(***************************************************************************)
(* Specification of the report alone: several days, settings and stores    *)
(***************************************************************************)
\* The first day of the cycle of salary day 26, a day inside it and its
\* last day.
ReportDays ==
    {MkDate(FirstYear, 2, 26), DefaultToday, MkDate(FirstYear, 3, 25)}

\* No settings row yet, a small fixed budget and a percentage budget.
ReportSettings ==
    {NoCall}
    \cup
    {[salary_day |-> 26, budget_type |-> "FIXED", budget_value |-> 2,
      ignored_categories |-> {}, income_categories |-> {"Salary"},
      view_cycle_offset |-> 0],
     [salary_day |-> 26, budget_type |-> "PERCENTAGE", budget_value |-> 40,
      ignored_categories |-> {}, income_categories |-> {"Salary"},
      view_cycle_offset |-> 0]}

\* Stored rows: expenses and refunds early in the previous cycle, on its
\* 25th and last days and early in the current cycle; income inside the
\* current cycle and on the day before its last day.
ReportRows ==
    [amount : StoreAmounts,
     txn_date : {ToOrdinal(FirstYear, 2, 5), ToOrdinal(FirstYear, 2, 25),
                 ToOrdinal(FirstYear, 3, 5)},
     payment_type : {"debit", "credit"},
     category_name : {"Food"}]
    \cup
    [amount : StoreAmounts,
     txn_date : {ToOrdinal(FirstYear, 3, 5), ToOrdinal(FirstYear, 3, 24)},
     payment_type : {"credit"},
     category_name : {"Salary"}]

InitReport ==
    /\ ServicesIdle
    /\ today \in ReportDays
    /\ settings \in ReportSettings
    /\ txns \in {S \in SUBSET ReportRows : Cardinality(S) <= MaxTxns}
    /\ report = NoCall
    /\ pay_in = NoCall /\ pay_out = NoCall
    /\ cyc_in = NoCall /\ cyc_out = NoCall
    /\ agg_in = NoCall /\ agg_out = NoCall
    /\ burn_in = NoCall /\ burn_out = NoCall
    /\ table = {} /\ calls = NoCalls

NextReport == get_dashboard_stats \/ ReturnReport

SpecReport == InitReport /\ [][NextReport]_vars

\* C12: the safe daily spend is budget_remaining / days_left when days are
\* left and budget remains, and 0 otherwise; it is never negative and never
\* the result of a division by zero.
SafeDailySpendGuarded ==
    report # NoCall =>
        LET safe == report.safe_to_spend_daily
        IN  /\ safe.den > 0
            /\ safe.num >= 0
            /\ IF report.days_left > 0 /\ report.budget_remaining > 0
               THEN safe.num * report.days_left
                      = report.budget_remaining * safe.den
               ELSE safe.num = 0

\* Witness of C12: days are left and the budget is overspent.
SafeDailySpendGuardedWitness ==
    /\ report # NoCall
    /\ report.days_left > 0
    /\ report.budget_remaining < 0
    /\ report.total_budget > 0

DayCountsConsistent ==
    report # NoCall =>
        /\ report.days_in_cycle = (report.cycle_end - report.cycle_start) + 1
        /\ report.days_in_cycle >= 1
        /\ 0 <= report.days_passed
        /\ report.days_passed <= report.days_in_cycle
        /\ report.days_left = report.days_in_cycle - report.days_passed
        /\ report.days_left >= 0
        /\ report.offset > 0 => report.days_passed = report.days_in_cycle

\* Witness of C16: the current cycle was cut short by an early salary and
\* today lies after its end.
DayCountsConsistentWitness ==
    /\ report # NoCall
    /\ report.offset = 0
    /\ Ord(today) > report.cycle_end
    /\ report.days_passed = report.days_in_cycle

\* C17: prev_cycle_spend_todate is the sum of the previous cycle's deltas of
\* the day indexes 1..days_passed, and spend_diff_percent is
\* ((total_spend - prev_cycle_spend_todate) / prev_cycle_spend_todate) * 100
\* when prev_cycle_spend_todate is not 0, 100 when it is 0 and total_spend is
\* positive, and 0 when both are 0.
PreviousComparisonAsStated ==
    report # NoCall =>
        LET p == get_secure_cycle_dates(txns, settings.salary_day,
                                        report.offset + 1,
                                        settings.income_categories, today)
            rows == {t \in InRange(txns, p[1], p[2]) :
                        /\ t.category_name \notin settings.ignored_categories
                        /\ t.category_name \notin settings.income_categories
                        /\ (t.txn_date - p[1]) + 1 <= report.days_passed}
            todate == SumFun([t \in rows |-> Signed(t)], rows) * Hundred
            diff == report.spend_diff_percent
        IN  /\ report.prev_cycle_spend_todate = todate
            /\ diff.den # 0
            /\ todate # 0 =>
                 diff.num * todate
                   = (report.total_spend - todate) * Hundred * diff.den
            /\ (todate = 0 /\ report.total_spend > 0) =>
                 diff.num = Hundred * diff.den
            /\ (todate = 0 /\ report.total_spend = 0) => diff.num = 0

\* Spend of the days 1..i of the cycle [start, end], in whole units as the
\* trend values are: expenses less refunds of the categories that are
\* neither ignored nor income.
RunningSpend(start, end, i) ==
    LET rows == {t \in InRange(txns, start, end) :
                    /\ t.category_name \notin settings.ignored_categories
                    /\ t.category_name \notin settings.income_categories
                    /\ (t.txn_date - start) + 1 <= i}
    IN  SumFun([t \in rows |-> Signed(t)], rows)

\* The previous cycle of the pending report.
ReportPrevious ==
    get_secure_cycle_dates(txns, settings.salary_day, report.offset + 1,
                           settings.income_categories, today)

\* The optional fraction v is present and equals n / d.
IsQuotient(v, n, d) ==
    v # Null /\ v[1].den # 0 /\ v[1].num * d = n * v[1].den

\* C18 as stated: one point per day index 1..max(days_in_cycle, length of
\* the previous cycle); at index i the actual value is the running sum of
\* the current cycle's deltas (null beyond days_passed when offset = 0), the
\* previous value the running sum of the previous cycle's deltas, and the
\* ideal value (budget_limit / days_in_cycle) * i.
TrendSeriesAsStated ==
    report # NoCall =>
        LET trend == report.spending_trend
            p == ReportPrevious
            max_days == Max2(report.days_in_cycle, (p[2] - p[1]) + 1)
        IN  /\ DOMAIN trend = 1..max_days
            /\ \A i \in 1..max_days :
                  /\ trend[i].day = i
                  /\ trend[i].actual =
                       IF report.offset = 0 /\ i > report.days_passed
                       THEN Null
                       ELSE Some(RunningSpend(report.cycle_start,
                                              report.cycle_end, i))
                  /\ trend[i].previous =
                       Some(RunningSpend(p[1], p[2], i))
                  /\ IsQuotient(trend[i].ideal, report.total_budget * i,
                                report.days_in_cycle)

\* C18 as amended: as stated, except that the actual and ideal values are
\* null at the indexes beyond days_in_cycle and the previous value is null
\* at the indexes beyond the previous cycle's length.
TrendSeriesWithinCycles ==
    report # NoCall =>
        LET trend == report.spending_trend
            p == ReportPrevious
            prev_length == (p[2] - p[1]) + 1
            max_days == Max2(report.days_in_cycle, prev_length)
        IN  /\ DOMAIN trend = 1..max_days
            /\ \A i \in 1..max_days :
                  /\ trend[i].day = i
                  /\ trend[i].actual =
                       IF \/ i > report.days_in_cycle
                          \/ (report.offset = 0 /\ i > report.days_passed)
                       THEN Null
                       ELSE Some(RunningSpend(report.cycle_start,
                                              report.cycle_end, i))
                  /\ trend[i].previous =
                       IF i > prev_length THEN Null
                       ELSE Some(RunningSpend(p[1], p[2], i))
                  /\ IF i > report.days_in_cycle THEN trend[i].ideal = Null
                     ELSE IsQuotient(trend[i].ideal, report.total_budget * i,
                                     report.days_in_cycle)

\* Witness of C18: the two cycles differ in length, there is a budget, and
\* at some day index both running sums are shown and positive.
TrendSeriesWithinCyclesWitness ==
    /\ report # NoCall
    /\ report.prev_duration # report.days_in_cycle
    /\ report.total_budget > 0
    /\ \E i \in DOMAIN report.spending_trend :
          /\ report.spending_trend[i].actual # Null
          /\ report.spending_trend[i].previous # Null
          /\ report.spending_trend[i].actual[1] > 0
          /\ report.spending_trend[i].previous[1] > 0

(***************************************************************************)
(* Specification of the settings table: concurrent GET and PUT /settings   *)
(***************************************************************************)
\* Bodies of PUT /dashboard/settings, valid or not.
SettingsPayloads ==
    [salary_day : {0, 15, 32}, budget_type : {"FIXED", "WEEKLY"},
     budget_value : {0 - 1, 40}, ignored_categories : {{}},
     income_categories : {{"Salary"}}, view_cycle_offset : {0}]

\* The validators of UserSettingsUpdate; budget_type is any string.
UserSettingsUpdate(data) ==
    /\ 1 <= data.salary_day /\ data.salary_day <= 31
    /\ data.budget_value >= 0

\* A row of user_settings: the columns and the primary key.
SettingsRow(id, columns) == [id |-> id] @@ columns

\* The variables no settings request touches.
other_vars == <<report_vars, service_vars>>

\* Where a request goes once it holds the settings row.
AfterRow(call) == IF call.op = "update" THEN "assign" ELSE "return"

\* GET /dashboard/settings arrives.
get_settings(r) ==
    /\ calls[r].pc = "idle"
    /\ calls' = [calls EXCEPT ![r] = [pc |-> "select", op |-> "get"]]
    /\ UNCHANGED <<table, other_vars>>

\* PUT /dashboard/settings arrives with a body the schema accepts.
put_settings(r) ==
    /\ calls[r].pc = "idle"
    /\ \E data \in SettingsPayloads :
          /\ UserSettingsUpdate(data)
          /\ calls' = [calls EXCEPT ![r] = [pc |-> "select", op |-> "update",
                                             data |-> data]]
    /\ UNCHANGED <<table, other_vars>>

\* PUT /dashboard/settings arrives with a body the schema rejects (422);
\* the handler does not run.
put_settings_rejected(r) ==
    /\ calls[r].pc = "idle"
    /\ \E data \in SettingsPayloads :
          /\ ~UserSettingsUpdate(data)
          /\ calls' = [calls EXCEPT ![r] = [pc |-> "rejected",
                                             op |-> "update", data |-> data]]
    /\ UNCHANGED <<table, other_vars>>

\* get_or_create_settings: select(UserSettings).limit(1), any row or none.
select_settings(r) ==
    /\ calls[r].pc = "select"
    /\ \/ /\ table = {}
          /\ calls' = [calls EXCEPT ![r] = [@ EXCEPT !.pc = "insert"]]
       \/ \E row \in table :
             calls' = [calls EXCEPT ![r] =
                          [pc |-> AfterRow(@), id |-> row.id] @@ @]
    /\ UNCHANGED <<table, other_vars>>

\* get_or_create_settings: no row was selected; the default row is added and
\* committed under the next primary key.
insert_settings(r) ==
    /\ calls[r].pc = "insert"
    /\ LET id == Cardinality(table) + 1
       IN  /\ table' = table \cup {SettingsRow(id, DefaultSettings)}
           /\ calls' = [calls EXCEPT ![r] =
                            [pc |-> AfterRow(@), id |-> id] @@ @]
    /\ UNCHANGED other_vars

\* update_settings: the fields of the row are assigned and committed.
commit_settings(r) ==
    /\ calls[r].pc = "assign"
    /\ table' = {IF row.id = calls[r].id
                 THEN SettingsRow(row.id, calls[r].data) ELSE row :
                    row \in table}
    /\ calls' = [calls EXCEPT ![r] = [@ EXCEPT !.pc = "return"]]
    /\ UNCHANGED other_vars

\* The response is sent: the row, or the validation error.
respond_settings(r) ==
    /\ calls[r].pc \in {"return", "rejected"}
    /\ calls' = [calls EXCEPT ![r] = Idle]
    /\ UNCHANGED <<table, other_vars>>

InitSettings ==
    /\ ServicesIdle
    /\ table = {}
    /\ calls = NoCalls
    /\ today = DefaultToday
    /\ pay_in = NoCall /\ pay_out = NoCall
    /\ cyc_in = NoCall /\ cyc_out = NoCall
    /\ agg_in = NoCall /\ agg_out = NoCall
    /\ settings = NoCall /\ txns = {} /\ report = NoCall
    /\ burn_in = NoCall /\ burn_out = NoCall

NextSettings ==
    \E r \in Requests :
        \/ get_settings(r)
        \/ put_settings(r)
        \/ put_settings_rejected(r)
        \/ select_settings(r)
        \/ insert_settings(r)
        \/ commit_settings(r)
        \/ respond_settings(r)

SpecSettings == InitSettings /\ [][NextSettings]_vars

\* C19: starting from the empty table, whenever a request that called
\* get_or_create_settings or update_settings responds, the table holds
\* exactly one row, and no step removes a row.
SettingsSingleton ==
    [][/\ \A row \in table : \E kept \in table' : kept.id = row.id
       /\ \A r \in Requests :
             calls'[r].pc = "return" => Cardinality(table') = 1]_vars

\* C20: the stored settings always have salary_day in 1..31, budget_type
\* FIXED or PERCENTAGE and budget_value >= 0, and a rejected update leaves
\* the stored settings as they were.
StoredSettingsValid ==
    [][/\ \A row \in table' :
             /\ row.salary_day \in 1..31
             /\ row.budget_type \in {"FIXED", "PERCENTAGE"}
             /\ row.budget_value >= 0
       /\ (\E r \in Requests : /\ calls'[r].pc = "rejected"
                                /\ calls[r].pc # "rejected")
            => table' = table]_vars

(***************************************************************************)
(* Chat sessions: SessionManager and ConversationSession                   *)
(***************************************************************************)
TTL_SECONDS == 1800
MAX_SESSIONS == 1000
HistoryLimit == 10

NumSessionIds == 2
MaxMessages == 2
TickSeconds == 900
MaxTicks == 5

SessionIds == 1..NumSessionIds
NoId == 0

\* ConversationSession(session_id), constructed at time t.
ConversationSession(session_id, t) ==
    [session_id |-> session_id, messages |-> <<>>, last_accessed |-> t]

\* ConversationSession.add_message at time t: the history keeps the last
\* HistoryLimit messages.
add_message_to(session, content, t) ==
    LET all == Append(session.messages, content)
        kept == IF Len(all) > HistoryLimit
                THEN SubSeq(all, Len(all) - HistoryLimit + 1, Len(all))
                ELSE all
    IN  [session EXCEPT !.messages = kept, !.last_accessed = t]

\* The sessions left when the least recently accessed ones are removed until
\* at most MAX_SESSIONS remain (sessions of equal age go in the order the
\* sort leaves them).
RECURSIVE evict_oldest(_)
evict_oldest(ss) ==
    IF Cardinality(DOMAIN ss) <= MAX_SESSIONS THEN ss
    ELSE LET oldest == CHOOSE sid \in DOMAIN ss :
                           \A other \in DOMAIN ss :
                               ss[sid].last_accessed <= ss[other].last_accessed
         IN  evict_oldest([sid \in DOMAIN ss \ {oldest} |-> ss[sid]])

\* Mutant: a session expires only after twice the time to live.
maybe_cleanup_late(ss, t) ==
    LET expired == {sid \in DOMAIN ss : t - ss[sid].last_accessed > 2 * TTL_SECONDS}
    IN  evict_oldest([sid \in DOMAIN ss \ expired |-> ss[sid]])

\* SessionManager._maybe_cleanup at time t.
maybe_cleanup(ss, t) ==
    LET expired == {sid \in DOMAIN ss : t - ss[sid].last_accessed > TTL_SECONDS}
    IN  evict_oldest([sid \in DOMAIN ss \ expired |-> ss[sid]])

\* How long the stored session of this id had not been accessed when a call
\* arrived (0 when there is none); kept with the call's result and its time.
IdleFor(ss, session_id, t) ==
    IF session_id \in DOMAIN ss THEN t - ss[session_id].last_accessed ELSE 0

InitSession ==
    /\ now = 0
    /\ sessions = << >>
    /\ returned = NoCall
    /\ LlmIdle /\ DagIdle /\ GoalsIdle /\ SyncIdle
    /\ today = DefaultToday
    /\ settings = NoCall /\ txns = {} /\ report = NoCall
    /\ burn_in = NoCall /\ burn_out = NoCall
    /\ table = {} /\ calls = NoCalls
    /\ pay_in = NoCall /\ pay_out = NoCall
    /\ cyc_in = NoCall /\ cyc_out = NoCall
    /\ agg_in = NoCall /\ agg_out = NoCall

session_frame == <<report_vars, table, calls, llm_vars, dag_vars, goal_vars, sync_vars>>

\* SessionManager.get_or_create_session(session_id); NoId stands for None,
\* for which a fresh uuid is drawn.
get_or_create_session ==
    \E session_id \in SessionIds \cup {NoId} :
        LET cleaned == maybe_cleanup(sessions, now)
        IN  /\ IF session_id # NoId /\ session_id \in DOMAIN cleaned
               THEN LET session == [cleaned[session_id] EXCEPT !.last_accessed = now]
                    IN  /\ sessions' = [cleaned EXCEPT ![session_id] = session]
                        /\ returned' = [op |-> "get_or_create_session",
                                        session_id |-> session_id,
                                        session |-> Some(session),
                                        idle_for |-> IdleFor(sessions, session_id, now),
                                        at |-> now]
               ELSE \E new_id \in SessionIds \ DOMAIN cleaned :
                        /\ session_id # NoId => new_id = session_id
                        /\ LET session == ConversationSession(new_id, now)
                           IN  /\ sessions' = [sid \in DOMAIN cleaned \cup {new_id} |->
                                                 IF sid = new_id THEN session
                                                 ELSE cleaned[sid]]
                               /\ returned' = [op |-> "get_or_create_session",
                                               session_id |-> new_id,
                                               session |-> Some(session),
                                               idle_for |-> IdleFor(sessions, new_id, now),
                                               at |-> now]
            /\ UNCHANGED <<now, session_frame>>

\* SessionManager.get_session(session_id)
get_session ==
    \E session_id \in SessionIds :
        /\ IF session_id \in DOMAIN sessions
           THEN LET session == [sessions[session_id] EXCEPT !.last_accessed = now]
                IN  /\ sessions' = [sessions EXCEPT ![session_id] = session]
                    /\ returned' = [op |-> "get_session",
                                    session_id |-> session_id,
                                    session |-> Some(session),
                                    idle_for |-> IdleFor(sessions, session_id, now),
                                        at |-> now]
           ELSE /\ sessions' = sessions
                /\ returned' = [op |-> "get_session", session_id |-> session_id,
                                session |-> Null, idle_for |-> 0, at |-> now]
        /\ UNCHANGED <<now, session_frame>>

\* ConversationSession.add_message on a session the manager holds.
add_message ==
    \E session_id \in DOMAIN sessions :
        /\ Len(sessions[session_id].messages) < MaxMessages
        /\ sessions' = [sessions EXCEPT
                          ![session_id] = add_message_to(@, "message", now)]
        /\ UNCHANGED <<now, returned, session_frame>>

\* Time passes.
Tick ==
    /\ now < MaxTicks * TickSeconds
    /\ now' = now + TickSeconds
    /\ UNCHANGED <<sessions, returned, session_frame>>

NextSession ==
    \/ get_or_create_session
    \/ get_session
    \/ add_message
    \/ Tick

SpecSession == InitSession /\ [][NextSession]_vars

\* C23: a chat session that has not been accessed for more than 30 minutes is
\* expired: no later get_or_create_session or get_session call with its id
\* returns the old session or its messages, and get_or_create_session returns
\* a new session with an empty history instead.
ExpiredSessionNotReturned ==
    (returned # NoCall /\ returned.idle_for > TTL_SECONDS) =>
        /\ returned.op = "get_session" => returned.session = Null
        /\ returned.op = "get_or_create_session" =>
               returned.session = Some(ConversationSession(returned.session_id, returned.at))

\* The half of C23 about get_or_create_session alone.
ExpiredSessionNotReopened ==
    (returned # NoCall /\ returned.idle_for > TTL_SECONDS
        /\ returned.op = "get_or_create_session") =>
        returned.session = Some(ConversationSession(returned.session_id, returned.at))

\* A session with a history was idle for more than the time to live and
\* get_or_create_session was then called with its id.
ExpiredSessionNotReopenedWitness ==
    /\ returned # NoCall
    /\ returned.op = "get_or_create_session"
    /\ returned.idle_for > TTL_SECONDS
    /\ returned.session = Some(ConversationSession(returned.session_id, returned.at))

\* C25: for offset 0 and every transaction store, whenever today lies in the
\* theoretical cycle it also lies in the secured range returned by
\* get_secure_cycle_dates, so a transaction dated today is in the range the
\* current report's totals are taken from.
TodayInSecuredCycle ==
    (/\ report # NoCall
     /\ report.offset = 0
     /\ ReportTheoretical[1] <= Ord(today)
     /\ Ord(today) <= ReportTheoretical[2])
    =>  /\ report.cycle_start <= Ord(today)
        /\ Ord(today) <= report.cycle_end
        /\ \A t \in txns :
              t.txn_date = Ord(today) =>
                  t \in InRange(txns, report.cycle_start, report.cycle_end)

\* The rows the aggregator counts as an income CREDIT: payment_type is
\* upper-cased before it is compared.
AggregatorIncomeCredit(t, s) ==
    /\ Upper(t.payment_type) = "CREDIT"
    /\ t.category_name \in s.income_categories
    /\ t.category_name \notin s.ignored_categories

\* C26: the early-salary guard and the aggregator agree on which stored
\* transactions are income credits, whatever letter case payment_type is
\* stored in: every transaction dated in the scan window that the aggregator
\* would count as an income CREDIT is also found by the guard.
IncomeCreditsAgree ==
    report # NoCall =>
        \A t \in txns :
            (/\ t.txn_date >= ReportTheoretical[2] - ScanDays
             /\ t.txn_date <= ReportTheoretical[2]
             /\ AggregatorIncomeCredit(t, settings))
            => guard_income_credit(t, settings.income_categories)

(***************************************************************************)
(* LLM client: the in-memory rate limiter of call_gemini_api               *)
(***************************************************************************)
DAILY_LIMIT == 1500
PER_MINUTE_LIMIT == 15
MinuteSeconds == 60
DaySeconds == 86400

LlmTickSeconds == 60
MaxLlmTicks == 1
MaxDays == 1
MaxSent == 16

\* date.today() and datetime.now() of the clock.
DayOf(t) == t \div DaySeconds

RECURSIVE KeepRecent(_, _)
\* The timestamps of the list that are less than 60 seconds old, in order.
KeepRecent(stamps, t) ==
    IF stamps = <<>> THEN <<>>
    ELSE IF t - Head(stamps) < MinuteSeconds
         THEN <<Head(stamps)>> \o KeepRecent(Tail(stamps), t)
         ELSE KeepRecent(Tail(stamps), t)

\* _check_rate_limit at time t: the state it leaves and whether the call is
\* allowed.
check_rate_limit(state, t) ==
    LET reset == IF state.last_reset # DayOf(t)
                 THEN [state EXCEPT !.requests_today = 0, !.last_reset = DayOf(t)]
                 ELSE state
        pruned == [reset EXCEPT !.requests_per_minute = KeepRecent(@, t)]
        daily_remaining == DAILY_LIMIT - pruned.requests_today
        minute_remaining == PER_MINUTE_LIMIT - Len(pruned.requests_per_minute)
    IN  [state |-> pruned,
         allowed |-> ~(daily_remaining <= 0) /\ ~(minute_remaining <= 0)]

\* _record_llm_request at time t.
record_llm_request(state, t) ==
    [state EXCEPT !.requests_today = @ + 1,
                  !.requests_per_minute = Append(@, t)]

InitLlm ==
    /\ now = 0
    /\ rate_limit_state = [requests_today |-> 0, last_reset |-> DayOf(0),
                           requests_per_minute |-> <<>>]
    /\ sent = <<>>
    /\ calls = NoCalls
    /\ SessionsIdle /\ DagIdle /\ GoalsIdle /\ SyncIdle
    /\ today = DefaultToday
    /\ settings = NoCall /\ txns = {} /\ report = NoCall
    /\ burn_in = NoCall /\ burn_out = NoCall
    /\ table = {}
    /\ pay_in = NoCall /\ pay_out = NoCall
    /\ cyc_in = NoCall /\ cyc_out = NoCall
    /\ agg_in = NoCall /\ agg_out = NoCall

llm_frame == <<report_vars, table, session_vars, dag_vars, goal_vars, sync_vars>>

\* call_gemini_api up to its first suspension: without an API key it returns
\* at once; a call the limiter refuses returns the error text; an allowed
\* call sends its HTTP request and waits for the response.
call_gemini_api(r) ==
    /\ calls[r].pc = "idle"
    /\ \E api_key \in BOOLEAN :
          IF ~api_key
          THEN UNCHANGED <<rate_limit_state, sent, calls>>
          ELSE LET checked == check_rate_limit(rate_limit_state, now)
               IN  /\ rate_limit_state' = checked.state
                   /\ IF checked.allowed
                      THEN /\ Len(sent) < MaxSent
                           /\ sent' = Append(sent, now)
                           /\ calls' = [calls EXCEPT ![r] = [pc |-> "post"]]
                      ELSE UNCHANGED <<sent, calls>>
    /\ UNCHANGED <<now, llm_frame>>

\* The response arrives with a success status: the request is recorded.
post_succeeds(r) ==
    /\ calls[r].pc = "post"
    /\ rate_limit_state' = record_llm_request(rate_limit_state, now)
    /\ calls' = [calls EXCEPT ![r] = Idle]
    /\ UNCHANGED <<now, sent, llm_frame>>

\* raise_for_status or the request raises (HTTP error status, timeout): the
\* except branches return the error text; nothing is recorded.
post_fails(r) ==
    /\ calls[r].pc = "post"
    /\ calls' = [calls EXCEPT ![r] = Idle]
    /\ UNCHANGED <<now, rate_limit_state, sent, llm_frame>>

\* GET /chatbot/rate-limit: get_rate_limit_status runs _check_rate_limit.
get_rate_limit_status ==
    /\ rate_limit_state' = check_rate_limit(rate_limit_state, now).state
    /\ UNCHANGED <<now, sent, calls, llm_frame>>

\* Time passes.
LlmTick ==
    /\ now % DaySeconds < MaxLlmTicks * LlmTickSeconds
    /\ now' = now + LlmTickSeconds
    /\ UNCHANGED <<rate_limit_state, sent, calls, llm_frame>>

\* Midnight passes.
Midnight ==
    /\ DayOf(now) < MaxDays
    /\ now' = (DayOf(now) + 1) * DaySeconds
    /\ UNCHANGED <<rate_limit_state, sent, calls, llm_frame>>

NextLlm ==
    \/ \E r \in Requests :
        \/ call_gemini_api(r)
        \/ post_succeeds(r)
        \/ post_fails(r)
    \/ get_rate_limit_status
    \/ LlmTick
    \/ Midnight

SpecLlm == InitLlm /\ [][NextLlm]_vars

\* The HTTP requests sent in the 60 seconds from time t on, and on a day.
SentInWindow(t) ==
    Cardinality({i \in DOMAIN sent : sent[i] >= t /\ sent[i] < t + MinuteSeconds})

SentOnDay(d) == Cardinality({i \in DOMAIN sent : DayOf(sent[i]) = d})

\* C27: for any interleaving of concurrent call_gemini_api calls, the number
\* of HTTP requests sent within any 60-second window never exceeds
\* PER_MINUTE_LIMIT and the number sent on one calendar day never exceeds
\* DAILY_LIMIT, failed requests counted as well as successful ones.
LlmRequestsWithinLimits ==
    \A i \in DOMAIN sent :
        /\ SentInWindow(sent[i]) <= PER_MINUTE_LIMIT
        /\ SentOnDay(DayOf(sent[i])) <= DAILY_LIMIT

(***************************************************************************)
(* Orchestrator: _topological_sort and _execute_dag                        *)
(***************************************************************************)
\* Task ids; a task list is a function from the ids of its tasks to their
\* depends_on ids, which may name the task itself or no task of the list.
TaskIds == {"t1", "t2", "t3"}

TaskLists == UNION {[present -> SUBSET TaskIds] : present \in SUBSET TaskIds}

\* The in-degrees after the ready tasks have been removed: one less for each
\* ready task a remaining task depends on.
decrement(ts, in_degree, ready, remaining) ==
    [tid \in DOMAIN in_degree |->
        IF tid \in remaining
        THEN in_degree[tid] - Cardinality(ts[tid] \cap ready)
        ELSE in_degree[tid]]

RECURSIVE sort_levels_eager(_, _, _, _)
\* Mutant: a task is ready as soon as at most one dependency is left.
sort_levels_eager(ts, remaining, in_degree, acc) ==
    IF remaining = {} THEN acc
    ELSE LET ready == {tid \in remaining : in_degree[tid] <= 1}
         IN  IF ready = {} THEN Append(acc, remaining)
             ELSE sort_levels_eager(ts, remaining \ ready,
                                    decrement(ts, in_degree, ready, remaining \ ready),
                                    Append(acc, ready))

RECURSIVE sort_levels(_, _, _, _)
\* The while loop of _topological_sort: the tasks without remaining
\* dependencies form the next level; when none is ready the remaining tasks
\* become one last level.
sort_levels(ts, remaining, in_degree, acc) ==
    IF remaining = {} THEN acc
    ELSE LET ready == {tid \in remaining : in_degree[tid] = 0}
         IN  IF ready = {} THEN Append(acc, remaining)
             ELSE sort_levels(ts, remaining \ ready,
                              decrement(ts, in_degree, ready, remaining \ ready),
                              Append(acc, ready))

\* Orchestrator._topological_sort(tasks): the levels, each a set of task ids.
topological_sort(ts) ==
    IF DOMAIN ts = {} THEN <<>>
    ELSE sort_levels(ts, DOMAIN ts, [tid \in DOMAIN ts |-> Cardinality(ts[tid])], <<>>)

InitDag ==
    /\ tasks \in TaskLists
    /\ levels = <<>>
    /\ task_status = NoCall
    /\ level_no = 0
    /\ now = 0
    /\ SessionsIdle /\ LlmIdle /\ GoalsIdle /\ SyncIdle
    /\ today = DefaultToday
    /\ settings = NoCall /\ txns = {} /\ report = NoCall
    /\ burn_in = NoCall /\ burn_out = NoCall
    /\ table = {} /\ calls = NoCalls
    /\ pay_in = NoCall /\ pay_out = NoCall
    /\ cyc_in = NoCall /\ cyc_out = NoCall
    /\ agg_in = NoCall /\ agg_out = NoCall

dag_frame == <<report_vars, table, calls, now, session_vars, llm_vars, goal_vars, sync_vars>>

\* _execute_dag is entered: the levels are computed.
execute_dag ==
    /\ level_no = 0
    /\ levels' = topological_sort(tasks)
    /\ task_status' = [tid \in DOMAIN tasks |-> "pending"]
    /\ level_no' = 1
    /\ UNCHANGED <<tasks, dag_frame>>

\* A coroutine of the current level's gather starts: _execute_task sets the
\* task RUNNING.
execute_task(tid) ==
    /\ tid \in DOMAIN tasks
    /\ level_no > 0
    /\ level_no <= Len(levels)
    /\ tid \in levels[level_no]
    /\ task_status[tid] = "pending"
    /\ task_status' = [task_status EXCEPT ![tid] = "running"]
    /\ UNCHANGED <<tasks, levels, level_no, dag_frame>>

\* The agent of a running task returns its result or raises.
task_returns(tid) ==
    /\ tid \in DOMAIN tasks
    /\ level_no > 0
    /\ task_status[tid] = "running"
    /\ \E outcome \in {"returned", "raised"} :
          task_status' = [task_status EXCEPT ![tid] = outcome]
    /\ UNCHANGED <<tasks, levels, level_no, dag_frame>>

\* gather has every result of the level: the statuses are set and the loop
\* goes on to the next level.
level_done ==
    /\ level_no > 0
    /\ level_no <= Len(levels)
    /\ \A tid \in levels[level_no] : task_status[tid] \in {"returned", "raised"}
    /\ task_status' = [tid \in DOMAIN task_status |->
                         IF tid \in levels[level_no]
                         THEN IF task_status[tid] = "returned" THEN "completed"
                              ELSE "failed"
                         ELSE task_status[tid]]
    /\ level_no' = level_no + 1
    /\ UNCHANGED <<tasks, levels, dag_frame>>

NextDag ==
    \/ execute_dag
    \/ \E tid \in TaskIds :
        \/ execute_task(tid)
        \/ task_returns(tid)
    \/ level_done

SpecDag == InitDag /\ [][NextDag]_vars

\* The levels a task appears in, and whether a task has finished.
LevelsOf(tid) == {i \in DOMAIN levels : tid \in levels[i]}

Finished(tid) == task_status[tid] \in {"returned", "raised", "completed", "failed"}

\* Each task appears in exactly one level, in a strictly later level than
\* every task it depends on, and no task has started before all of its
\* dependencies have finished.
LevelsRespectDependencies ==
    /\ \A tid \in DOMAIN tasks :
          /\ Cardinality(LevelsOf(tid)) = 1
          /\ \A dep \in tasks[tid] \cap DOMAIN tasks :
                \A i \in LevelsOf(tid), j \in LevelsOf(dep) : j < i
    /\ \A tid \in DOMAIN tasks :
          task_status[tid] # "pending" =>
              \A dep \in tasks[tid] \cap DOMAIN tasks : Finished(dep)

\* A task list whose depends_on ids all name tasks of the list and form no
\* cycle.
ValidDependencies(ts) ==
    /\ \A tid \in DOMAIN ts : ts[tid] \subseteq DOMAIN ts
    /\ \E rank \in [DOMAIN ts -> 1..Cardinality(TaskIds)] :
          \A tid \in DOMAIN ts : \A dep \in ts[tid] : rank[dep] < rank[tid]

\* C28 as stated: for every task list given to _topological_sort, each task
\* appears in exactly one level and in a strictly later level than every task
\* it depends on, so _execute_dag never starts a task before all of its
\* dependencies have finished.
DagOrderForEveryList ==
    level_no > 0 => LevelsRespectDependencies

\* C28, amended: the same for every task list whose depends_on ids all name
\* tasks of the list and form no cycle.
DagOrderForValidLists ==
    (level_no > 0 /\ ValidDependencies(tasks)) => LevelsRespectDependencies

\* Witness of C28: a task with two dependencies, one of which depends on the
\* other, has started after both have finished, one of them having failed.
DagOrderForValidListsWitness ==
    /\ level_no > 0
    /\ ValidDependencies(tasks)
    /\ Len(levels) = 3
    /\ \E tid \in DOMAIN tasks :
          /\ Cardinality(tasks[tid]) = 2
          /\ task_status[tid] = "running"
          /\ \E dep \in tasks[tid] : task_status[dep] = "failed"

(***************************************************************************)
(* Monthly goals: create_goal, update_goal, delete_goal                    *)
(***************************************************************************)
NumGoalCategories == 2
MaxGoals == 3

GoalCategories == 1..NumGoalCategories
GoalCaps == {1, 2}

\* models.MonthlyGoal(category_id, cap_amount, created_via) as create_goal
\* constructs it: the row gets the next id and is active.
MonthlyGoal(id, category_id, cap_amount) ==
    [id |-> id, category_id |-> category_id, cap_amount |-> cap_amount,
     is_active |-> TRUE]

\* get_goal_by_category: the active goals of the category (scalar_one_or_none
\* returns the single one, None when there is none, and raises when there
\* are several).
get_goal_by_category(db, category_id) ==
    {g \in db : g.category_id = category_id /\ g.is_active}

\* get_goal_by_id
get_goal_by_id(db, goal_id) == {g \in db : g.id = goal_id}

\* Payloads of GoalUpdate: each field is optional.
GoalUpdates == [cap_amount : {Null, Some(2)}, is_active : {Null, Some(TRUE), Some(FALSE)}]

InitGoals ==
    /\ goals = {}
    /\ goal_seq = 0
    /\ now = 0
    /\ SessionsIdle /\ LlmIdle /\ DagIdle /\ SyncIdle
    /\ today = DefaultToday
    /\ settings = NoCall /\ txns = {} /\ report = NoCall
    /\ burn_in = NoCall /\ burn_out = NoCall
    /\ table = {} /\ calls = NoCalls
    /\ pay_in = NoCall /\ pay_out = NoCall
    /\ cyc_in = NoCall /\ cyc_out = NoCall
    /\ agg_in = NoCall /\ agg_out = NoCall

goal_frame == <<report_vars, table, calls, now, session_vars, llm_vars, dag_vars, sync_vars>>

\* POST /goals: create_goal deactivates the category's active goal and adds
\* the new one; with several active goals the lookup raises and nothing is
\* written.
create_goal ==
    /\ goal_seq < MaxGoals
    /\ \E category_id \in GoalCategories, cap_amount \in GoalCaps :
          LET existing == get_goal_by_category(goals, category_id)
          IN  IF Cardinality(existing) > 1
              THEN UNCHANGED <<goals, goal_seq>>
              ELSE /\ goals' = {IF g \in existing THEN [g EXCEPT !.is_active = FALSE]
                                ELSE g : g \in goals}
                               \cup {MonthlyGoal(goal_seq + 1, category_id, cap_amount)}
                   /\ goal_seq' = goal_seq + 1
    /\ UNCHANGED goal_frame

\* PUT /goals/{goal_id}: update_goal assigns the fields the payload holds.
update_goal ==
    /\ \E goal_id \in 1..MaxGoals, goal_data \in GoalUpdates :
          LET found == get_goal_by_id(goals, goal_id)
          IN  IF found = {} THEN UNCHANGED goals
              ELSE goals' = {IF g \in found
                             THEN [g EXCEPT
                                     !.cap_amount = IF goal_data.cap_amount # Null
                                                    THEN goal_data.cap_amount[1] ELSE @,
                                     !.is_active = IF goal_data.is_active # Null
                                                   THEN goal_data.is_active[1] ELSE @]
                             ELSE g : g \in goals}
    /\ UNCHANGED <<goal_seq, goal_frame>>

\* DELETE /goals/{goal_id}
delete_goal ==
    /\ \E goal_id \in 1..MaxGoals :
          goals' = goals \ get_goal_by_id(goals, goal_id)
    /\ UNCHANGED <<goal_seq, goal_frame>>

NextGoals ==
    \/ create_goal
    \/ update_goal
    \/ delete_goal

SpecGoals == InitGoals /\ [][NextGoals]_vars

\* C29: after any sequence of create_goal, update_goal and delete_goal calls,
\* each category has at most one active goal.
OneActiveGoalPerCategory ==
    \A category_id \in GoalCategories :
        Cardinality(get_goal_by_category(goals, category_id)) <= 1

(***************************************************************************)
(* Email sync: trigger_sync, run_email_sync and the sync_job thread        *)
(***************************************************************************)
NumSyncCallers == 3
MaxEmails == 1

SyncCallers == 1..NumSyncCallers

\* SyncStatus
IDLE == "idle"
RUNNING == "running"
COMPLETED == "completed"
FAILED == "failed"

\* _sync_state at import time.
idle_state ==
    [status |-> IDLE, error |-> Null, emails_processed |-> 0, transactions_saved |-> 0]

\* run_email_sync, "Reset state", with RUNNING taken out.
reset_state_unmarked(state) == idle_state

\* run_email_sync, "Reset state": the state of a sync that has just started.
reset_state(state) ==
    [status |-> RUNNING, error |-> Null, emails_processed |-> 0, transactions_saved |-> 0]

\* What sync_job returns: (emails_processed, transactions_saved).
JobResults ==
    {res \in [emails_processed : 0..MaxEmails, transactions_saved : 0..MaxEmails] :
        res.transactions_saved <= res.emails_processed}

\* The response of trigger_sync: a message and the status it reports.
Response(message, state) ==
    [pc |-> "returned", message |-> message, status |-> state.status]

InitSync ==
    /\ sync_state = idle_state
    /\ jobs = {}
    /\ calls = [r \in SyncCallers |-> Idle]
    /\ now = 0
    /\ SessionsIdle /\ LlmIdle /\ DagIdle /\ GoalsIdle
    /\ today = DefaultToday
    /\ settings = NoCall /\ txns = {} /\ report = NoCall
    /\ burn_in = NoCall /\ burn_out = NoCall
    /\ table = {}
    /\ pay_in = NoCall /\ pay_out = NoCall
    /\ cyc_in = NoCall /\ cyc_out = NoCall
    /\ agg_in = NoCall /\ agg_out = NoCall

sync_frame == <<report_vars, table, now, session_vars, llm_vars, dag_vars, goal_vars>>

\* POST /sync/trigger up to the first suspension: trigger_sync reads the
\* status and, unless it is RUNNING, run_email_sync resets the state to
\* RUNNING and either fails before the job exists (ETL not importable) or
\* hands sync_job to the executor and awaits it.
trigger_sync(r) ==
    /\ calls[r] = Idle
    /\ IF sync_state.status = RUNNING
       THEN /\ calls' = [calls EXCEPT ![r] = Response("Sync already in progress", sync_state)]
            /\ UNCHANGED <<sync_state, jobs>>
       ELSE \/ /\ sync_state' = [reset_state(sync_state) EXCEPT
                                    !.status = FAILED, !.error = Some("ImportError")]
               /\ calls' = [calls EXCEPT ![r] = Response("Sync completed", sync_state')]
               /\ UNCHANGED jobs
            \/ /\ sync_state' = reset_state(sync_state)
               /\ jobs' = jobs \cup {r}
               /\ calls' = [calls EXCEPT ![r] = [pc |-> "awaiting"]]
    /\ UNCHANGED sync_frame

\* The sync_job thread of request r ends, with a result or with an exception.
sync_job_ends(r) ==
    /\ r \in jobs
    /\ jobs' = jobs \ {r}
    /\ \/ \E res \in JobResults :
             calls' = [calls EXCEPT ![r] =
                          IF @.pc = "awaiting" THEN [pc |-> "job_returned", result |-> res] ELSE @]
       \/ calls' = [calls EXCEPT ![r] = IF @.pc = "awaiting" THEN [pc |-> "job_raised"] ELSE @]
    /\ UNCHANGED <<sync_state, sync_frame>>

\* run_email_sync resumes after the await: COMPLETED with the counts, or the
\* except branch sets FAILED; trigger_sync returns the status.
run_email_sync_resumes(r) ==
    /\ calls[r].pc \in {"job_returned", "job_raised"}
    /\ sync_state' =
          IF calls[r].pc = "job_returned"
          THEN [sync_state EXCEPT !.status = COMPLETED,
                                  !.emails_processed = calls[r].result.emails_processed,
                                  !.transactions_saved = calls[r].result.transactions_saved]
          ELSE [sync_state EXCEPT !.status = FAILED, !.error = Some("Exception")]
    /\ calls' = [calls EXCEPT ![r] = Response("Sync completed", sync_state')]
    /\ UNCHANGED <<jobs, sync_frame>>

\* The awaiting request is cancelled: CancelledError is no Exception, so the
\* except branch does not run and the thread is left to finish.
request_cancelled(r) ==
    /\ calls[r].pc \in {"awaiting", "job_returned", "job_raised"}
    /\ calls' = [calls EXCEPT ![r] = [pc |-> "cancelled"]]
    /\ UNCHANGED <<sync_state, jobs, sync_frame>>

\* The client of a finished request sends the next one.
next_request(r) ==
    /\ calls[r].pc \in {"returned", "cancelled"}
    /\ r \notin jobs
    /\ calls' = [calls EXCEPT ![r] = Idle]
    /\ UNCHANGED <<sync_state, jobs, sync_frame>>

NextSync ==
    \E r \in SyncCallers :
        \/ trigger_sync(r)
        \/ sync_job_ends(r)
        \/ run_email_sync_resumes(r)
        \/ request_cancelled(r)
        \/ next_request(r)

SpecSync == InitSync /\ [][NextSync]_vars

\* A call that has just returned 'Sync already in progress'.
RejectedNow(r) ==
    /\ calls[r] = Idle
    /\ calls'[r].pc = "returned"
    /\ calls'[r].message = "Sync already in progress"

\* C30: at most one email sync job runs at a time: under every interleaving
\* of calls, a job exists only while the status is RUNNING, and a call made
\* while the status is RUNNING returns 'Sync already in progress' and starts
\* no job.
OneSyncJobAtATime ==
    /\ [](Cardinality(jobs) <= 1 /\ (jobs # {} => sync_state.status = RUNNING))
    /\ [][\A r \in SyncCallers :
             (sync_state.status = RUNNING /\ calls[r] = Idle /\ calls'[r] # Idle)
                => (RejectedNow(r) /\ jobs' = jobs /\ sync_state' = sync_state)]_vars

\* A call was turned away while the job of another request was running.
OneSyncJobAtATimeWitness ==
    \E r \in SyncCallers, q \in SyncCallers :
        /\ r # q
        /\ jobs = {q}
        /\ calls[q].pc = "awaiting"
        /\ calls[r].pc = "returned"
        /\ calls[r].message = "Sync already in progress"
        /\ sync_state.status = RUNNING

====
